---- MODULE Spec2Model ----
(***************************************************************************)
(* State-machine model of the decision logic of the automation framework:  *)
(*   - utils/retry.py        the retry decorator's wrapper                  *)
(*   - core/base_page.py     BasePage.find_element / BasePage.click, the    *)
(*                           two operations decorated with @retry           *)
(*   - services/api_client.py  ApiClient._request over a session mounted    *)
(*                           with urllib3's Retry                           *)
(*   - utils/waits.py        the polling conditions, under selenium's       *)
(*                           WebDriverWait.until                            *)
(*   - core/base_page.py     BasePage.parse_price                           *)
(*   - pages/cart_page.py    CartPage.validate_pricing                      *)
(*   - tests/ui/test_cross_layer.py  test_pdp_price_matches_api_price, from *)
(*                           its query of the inventory API on              *)
(*   - conftest.py, utils/screenshot.py  the driver fixture, the session's  *)
(*                           api_client fixture and the                     *)
(*                           screenshot-on-failure fixture, under pytest    *)
(*   - the three price-tolerance comparisons of cart_page.py,               *)
(*                           test_cross_layer.py and test_cart_pricing.py   *)
(*   - core/base_page.py     BasePage.dismiss_popups                        *)
(*   - pages/home_page.py    HomePage.search_product                        *)
(*   - pages/search_results_page.py  get_product_cards and its callers      *)
(***************************************************************************)
EXTENDS Integers, Sequences, FiniteSets, TLC

VARIABLES
    \* ---- one call of retry(...)(func)(*args): utils/retry.py ----
    fn,              \* the decorated function: "func", "find_element", "click"
    max_attempts,    \* decorator argument
    delay,           \* decorator argument, in milliseconds
    exceptions,      \* decorator argument: the set of classes of the tuple
    timeout,         \* find_element's timeout argument (0: None)
    attempt,         \* the loop variable of wrapper's for statement
    last_exception,  \* wrapper's local
    rpc,             \* where the wrapper is
    outcomes,        \* what func did at each invocation so far
    events,          \* the calls, sleeps and log records made so far, in order
    slept,           \* total time passed in time.sleep, in milliseconds
    result,          \* how the wrapper call ended
    \* ---- one call of ApiClient._request: services/api_client.py ----
    method,          \* the HTTP method
    api_max_retries, \* settings.API_MAX_RETRIES
    apc,             \* where _request is
    total,           \* what is left of the Retry object's total
    answers,         \* what the network did at each dispatch so far
    api_result,      \* how _request ended
    \* ---- one WebDriverWait(driver, t).until(condition): utils/waits.py ----
    wcond,           \* the condition object: its class and its fields
    browser,         \* the browser: readyState, DOM, current URL, windows
    wpc,             \* where until() is
    polls,           \* the evaluations made so far: browser seen, result
    wait_result,     \* how until() ended
    env_steps,       \* how many times the browser changed during the wait
    \* ---- one call of BasePage.parse_price: core/base_page.py ----
    label,           \* the text argument
    ppc,             \* where parse_price is
    price_result,    \* the float it returned, or the exception it raised
    \* ---- one call of CartPage.validate_pricing: pages/cart_page.py ----
    item_labels,     \* the texts of the item-price elements, in document order
    total_label,     \* the text of the cart-total element
    cpc,             \* where validate_pricing is
    breakdown,       \* the PricingBreakdown it returned, or the exception
    \* ---- test_pdp_price_matches_api_price: tests/ui/test_cross_layer.py ----
    ui_price,        \* the selling price read from the product page
    api_response,    \* what service.get_product_details returned
    xpc,             \* where the test is
    test_outcome,    \* how the try block ended: passed, failed or skipped
    closes,          \* the calls of api_client.close() so far
    \* ---- a pytest session over the fixtures of conftest.py ----
    screenshot_on,   \* settings.SCREENSHOT_ON_FAILURE
    test_no,         \* the number of the current test, 0 before the first
    uses_driver,     \* the current test has the argument "driver"
    fpc,             \* the phase of the current test
    active,          \* the function fixtures set up for it, in setup order
    rep_call,        \* item.rep_call: the outcome of the call phase
    drivers,         \* the WebDrivers created so far: test and state of each
    shots,           \* the calls of capture_screenshot so far
    finished,        \* the tests that ran to the end of their teardown
    uses_api,        \* the current test has the argument "api_client"
    client,          \* the session's ApiClient: constructions, state, closes
    requests,        \* the requests issued through api_client so far
    \* ---- the three price-tolerance checks, on one pair of prices ----
    shown_price,     \* the price one layer shows
    other_price,     \* the price it is compared with
    tpc,             \* where the comparison is
    verdicts,        \* what each of the three checks answered
    \* ---- one call of HomePage.search_product: pages/home_page.py ----
    query,           \* the query argument
    current_url,     \* driver.current_url: where the browser is
    submit_url,      \* where the browser was when the query was submitted
    original_url,    \* the url given to EC.url_changes
    spc,             \* where search_product is
    url_polls,       \* the urls the url-change wait has seen so far
    search_outcome,  \* how search_product ended
    \* ---- has_results() and click_first_product(): search_results_page.py ----
    document,        \* the product cards of the page: rendering, how many
    caller,          \* who called get_product_cards
    kpc,             \* where get_product_cards is
    card_polls,      \* the evaluations its wait has made so far
    observed,        \* the collection its wait returned, if it returned one
    returned,        \* the list get_product_cards returned, if it returned
    has_results,     \* what has_results() answered, if it answered
    clicked,         \* what click_first_product did
    renders,         \* how many times the page re-rendered meanwhile
    \* ---- one call of BasePage.dismiss_popups: core/base_page.py ----
    popup_dom,       \* the selectors that match an element of the page
    dpc,             \* where dismiss_popups is
    tried,           \* the strategies tried so far and what came of each
    clicks           \* the calls of click() made so far

retryVars == <<fn, max_attempts, delay, exceptions, timeout, attempt,
               last_exception, rpc, outcomes, events, slept, result>>

apiVars == <<method, api_max_retries, apc, total, answers, api_result>>

waitVars == <<wcond, browser, wpc, polls, wait_result, env_steps>>

priceVars == <<label, ppc, price_result>>

cartVars == <<item_labels, total_label, cpc, breakdown>>

crossVars == <<ui_price, api_response, xpc, test_outcome, closes>>

clientVars == <<uses_api, client, requests>>

fixtureVars == <<screenshot_on, test_no, uses_driver, fpc, active, rep_call,
                 drivers, shots, finished, clientVars>>

toleranceVars == <<shown_price, other_price, tpc, verdicts>>

searchVars == <<query, current_url, submit_url, original_url, spc, url_polls,
                search_outcome>>

cardsVars == <<document, caller, kpc, card_polls, observed, returned,
               has_results, clicked, renders>>

popupVars == <<popup_dom, dpc, tried, clicks>>

pageVars == <<toleranceVars, searchVars, cardsVars, popupVars>>

vars == <<retryVars, apiVars, waitVars, priceVars, cartVars, crossVars,
          fixtureVars, pageVars>>

\* no wait is under way
WaitIdle ==
    /\ wcond = [name |-> "none"]
    /\ browser = [ready |-> "complete"]
    /\ wpc = "idle"
    /\ polls = <<>>
    /\ wait_result = [kind |-> "none"]
    /\ env_steps = 0

\* parse_price is not being called
PriceIdle ==
    /\ label = ""
    /\ ppc = "idle"
    /\ price_result = [kind |-> "none"]

\* validate_pricing is not being called
CartIdle ==
    /\ item_labels = <<>>
    /\ total_label = ""
    /\ cpc = "idle"
    /\ breakdown = [kind |-> "none"]

\* the cross-layer test is not running
CrossIdle ==
    /\ ui_price = [num |-> 0, dec |-> 0]
    /\ api_response = [status_code |-> 0]
    /\ xpc = "idle"
    /\ test_outcome = [outcome |-> "none"]
    /\ closes = 0

\* no pytest session is running
FixtureIdle ==
    /\ screenshot_on = TRUE
    /\ test_no = 0
    /\ uses_driver = FALSE
    /\ fpc = "off"
    /\ active = <<>>
    /\ rep_call = "none"
    /\ drivers = <<>>
    /\ shots = <<>>
    /\ finished = <<>>
    /\ uses_api = FALSE
    /\ client = [made |-> 0, state |-> "none", closes |-> 0, left |-> 0]
    /\ requests = <<>>

\* the components modelled after the retry wrapper and the API client
\* no prices are being compared
ToleranceIdle ==
    /\ shown_price = [num |-> 0, dec |-> 0]
    /\ other_price = [num |-> 0, dec |-> 0]
    /\ tpc = "idle"
    /\ verdicts = [kind |-> "none"]

\* search_product is not being called
SearchIdle ==
    /\ query = ""
    /\ current_url = ""
    /\ submit_url = ""
    /\ original_url = ""
    /\ spc = "idle"
    /\ url_polls = <<>>
    /\ search_outcome = "none"

\* no product cards are being asked for
CardsIdle ==
    /\ document = [gen |-> 0, n |-> 0]
    /\ caller = "none"
    /\ kpc = "idle"
    /\ card_polls = 0
    /\ observed = <<>>
    /\ returned = <<>>
    /\ has_results = <<>>
    /\ clicked = "none"
    /\ renders = 0

\* dismiss_popups is not being called
PopupIdle ==
    /\ popup_dom = {}
    /\ dpc = "idle"
    /\ tried = <<>>
    /\ clicks = 0

PageIdle == ToleranceIdle /\ SearchIdle /\ CardsIdle /\ PopupIdle

extraVars == <<waitVars, priceVars, cartVars, crossVars, fixtureVars, pageVars>>
ExtraIdle ==
    WaitIdle /\ PriceIdle /\ CartIdle /\ CrossIdle /\ FixtureIdle /\ PageIdle

\* everything but pageVars
coreVars == <<retryVars, apiVars, waitVars, priceVars, cartVars, crossVars,
              fixtureVars>>

----------------------------------------------------------------------------
(* Bounds of the model *)

\* largest max_attempts tried for a freely configured decorator
MaxAttempts == 3

\* largest settings.API_MAX_RETRIES tried
MaxApiRetries == 2

(* Program constants *)

\* settings.API_MAX_RETRIES
API_MAX_RETRIES == 2

\* settings.API_TIMEOUT
API_TIMEOUT == 15

\* @retry(max_attempts=3, ...) on BasePage.find_element and BasePage.click
BasePageMaxAttempts == 3
\* @retry(..., delay=0.5, ...) on the same two methods, in milliseconds
BasePageDelayMs == 500
\* settings.EXPLICIT_WAIT
EXPLICIT_WAIT == 15

----------------------------------------------------------------------------
(* Exception classes and isinstance *)

Classes ==
    {"BaseException", "KeyboardInterrupt", "Exception", "TypeError",
     "WebDriverException", "StaleElementReferenceException",
     "TimeoutException", "ElementClickInterceptedException",
     "AutomationBaseError", "ElementNotFoundError"}

\* the base class of each class
Parent(c) ==
    CASE c = "KeyboardInterrupt" -> "BaseException"
      [] c = "Exception" -> "BaseException"
      [] c = "TypeError" -> "Exception"
      [] c = "WebDriverException" -> "Exception"
      [] c = "StaleElementReferenceException" -> "WebDriverException"
      [] c = "TimeoutException" -> "WebDriverException"
      [] c = "ElementClickInterceptedException" -> "WebDriverException"
      [] c = "AutomationBaseError" -> "Exception"
      [] c = "ElementNotFoundError" -> "AutomationBaseError"
      [] OTHER -> "BaseException"

RECURSIVE IsSubclass(_, _)
IsSubclass(c, d) ==
    \/ c = d
    \/ c # "BaseException" /\ IsSubclass(Parent(c), d)

\* an exception object: its class, str(exc), and the invocation that raised it
\* (0: raised by the wrapper itself), which tells two equal-looking objects apart
Exc(c, m, i) == [cls |-> c, msg |-> m, id |-> i]

\* Python's None, where an exception object may stand
None == [cls |-> "None", msg |-> "", id |-> 0]

\* what one invocation of func does: it returns a value or raises
Returns(v) == [kind |-> "return", val |-> v, exc |-> None]
Raises(e) == [kind |-> "raise", val |-> "", exc |-> e]

Msgs == {"stale", "gone"}
Values == {"v1", "v2"}

----------------------------------------------------------------------------
(* retry.decorator.wrapper, piece by piece *)

CatchesAnyException(e, excs) == IsSubclass(e.cls, "Exception")
\* except exceptions as exc: isinstance(exc, exceptions)
Catches(e, excs) == \E d \in excs : IsSubclass(e.cls, d)

RangeHasNextShort(a, m) == a + 1 < m
RangeHasNextOver(a, m) == a < m + 1
\* for attempt in range(1, max_attempts + 1): is there a value after a?
RangeHasNext(a, m) == a + 1 < m + 1

RetriesLeftAlways(a, m) == a <= m
\* if attempt < max_attempts: warn and sleep; else: log the exhaustion
RetriesLeft(a, m) == a < m

KeepFirst(last, e) == IF last = None THEN e ELSE last
\* last_exception = exc
KeepLast(last, e) == e

----------------------------------------------------------------------------
(* The decorated functions *)

\* timeout or settings.EXPLICIT_WAIT
EffectiveTimeout(t) == IF t = 0 THEN EXPLICIT_WAIT ELSE t

\* f"Element not found within {timeout or settings.EXPLICIT_WAIT}s: {locator}"
NotFoundMsg(t) ==
    "Element not found within " \o ToString(EffectiveTimeout(t)) \o "s: loc"

\* what WebDriverWait(driver, t).until(EC.presence_of_element_located(locator))
\* can do: the default wait ignores NoSuchElementException only, so a stale
\* reference raised by the condition leaves until()
FindWaitOutcomes(i) ==
    {Returns(v) : v \in Values}
    \cup {Raises(Exc(c, m, i)) :
            c \in {"TimeoutException", "StaleElementReferenceException",
                   "WebDriverException"},
            m \in Msgs}

FindElementBodyBare(w, t, i) == w
\* BasePage.find_element's try/except around the wait
FindElementBody(w, t, i) ==
    IF w.kind = "raise" /\ IsSubclass(w.exc.cls, "TimeoutException")
    THEN Raises(Exc("ElementNotFoundError", NotFoundMsg(t), i))
    ELSE w

\* what self.wait.until(EC.element_to_be_clickable(locator)) can do: self.wait
\* ignores StaleElementReferenceException
ClickWaitOutcomes(i) ==
    {Returns(v) : v \in Values}
    \cup {Raises(Exc(c, m, i)) :
            c \in {"TimeoutException", "WebDriverException"}, m \in Msgs}

\* what element.click() can do
ElementClickOutcomes(i) ==
    {Returns("None")}
    \cup {Raises(Exc(c, m, i)) :
            c \in {"StaleElementReferenceException",
                   "ElementClickInterceptedException"},
            m \in Msgs}

\* BasePage.click: the wait, then element.click()
ClickBody(w, c) == IF w.kind = "raise" THEN w ELSE c

\* an arbitrary decorated callable
FuncOutcomes(i) ==
    {Returns(v) : v \in Values}
    \cup {Raises(Exc(c, m, i)) :
            c \in {"StaleElementReferenceException", "TimeoutException",
                   "ElementNotFoundError", "KeyboardInterrupt"},
            m \in Msgs}

\* func(*args, **kwargs): what invocation number i of the decorated function does
Invocation(f, t, i) ==
    CASE f = "find_element" ->
            {FindElementBody(w, t, i) : w \in FindWaitOutcomes(i)}
      [] f = "click" ->
            {ClickBody(w, c) : w \in ClickWaitOutcomes(i),
                               c \in ElementClickOutcomes(i)}
      [] OTHER -> FuncOutcomes(i)

\* no _request call is in progress
ApiIdle ==
    /\ method = "GET"
    /\ api_max_retries = 0
    /\ apc = "idle"
    /\ total = 0
    /\ answers = <<>>
    /\ api_result = [kind |-> "none"]

----------------------------------------------------------------------------
(* The decorator's arguments *)

ExceptionTuples ==
    {{"Exception"}, {"StaleElementReferenceException"},
     {"WebDriverException"},
     {"StaleElementReferenceException", "ElementNotFoundError"}}

AttemptChoices == (0 - 1)..MaxAttempts
DelayChoices == {0, BasePageDelayMs}
TimeoutChoices == {0, 5}

\* wrapper(*args, **kwargs) is entered: last_exception = None, the loop not
\* yet started
RetryInit ==
    /\ fn \in {"func", "find_element", "click"}
    /\ IF fn = "func"
       THEN /\ max_attempts \in AttemptChoices
            /\ delay \in DelayChoices
            /\ exceptions \in ExceptionTuples
       ELSE /\ max_attempts = BasePageMaxAttempts
            /\ delay = BasePageDelayMs
            /\ exceptions = {"StaleElementReferenceException"}
    /\ IF fn = "find_element" THEN timeout \in TimeoutChoices ELSE timeout = 0
    /\ attempt = 0
    /\ last_exception = None
    /\ rpc = "for"
    /\ outcomes = <<>>
    /\ events = <<>>
    /\ slept = 0
    /\ result = Returns("")
    /\ ApiIdle
    /\ ExtraIdle

\* the for statement takes the next value of range(1, max_attempts + 1)
ForNext ==
    /\ rpc = "for"
    /\ RangeHasNext(attempt, max_attempts)
    /\ attempt' = attempt + 1
    /\ rpc' = "try"
    /\ UNCHANGED <<fn, max_attempts, delay, exceptions, timeout,
                   last_exception, outcomes, events, slept, result>>
    /\ UNCHANGED <<apiVars, extraVars>>

\* try: return func(*args, **kwargs), with the except clause's match
Invoke ==
    /\ rpc = "try"
    /\ \E o \in Invocation(fn, timeout, Len(outcomes) + 1) :
        /\ outcomes' = Append(outcomes, o)
        /\ events' = Append(events, "call")
        /\ IF o.kind = "return"
           THEN /\ rpc' = "returned"
                /\ result' = o
                /\ UNCHANGED last_exception
           ELSE IF Catches(o.exc, exceptions)
           THEN /\ rpc' = "except"
                /\ last_exception' = KeepLast(last_exception, o.exc)
                /\ UNCHANGED result
           ELSE /\ rpc' = "raised"
                /\ result' = o
                /\ UNCHANGED last_exception
    /\ UNCHANGED <<fn, max_attempts, delay, exceptions, timeout, attempt,
                   slept>>
    /\ UNCHANGED <<apiVars, extraVars>>

\* the except clause's body, up to the sleep
Except ==
    /\ rpc = "except"
    /\ IF RetriesLeft(attempt, max_attempts)
       THEN /\ events' = Append(events, "warning")
            /\ rpc' = "sleep"
       ELSE /\ events' = Append(events, "error")
            /\ rpc' = "for"
    /\ UNCHANGED <<fn, max_attempts, delay, exceptions, timeout, attempt,
                   last_exception, outcomes, slept, result>>
    /\ UNCHANGED <<apiVars, extraVars>>

\* time.sleep(delay)
Sleep ==
    /\ rpc = "sleep"
    /\ events' = Append(events, "sleep")
    /\ slept' = slept + delay
    /\ rpc' = "for"
    /\ UNCHANGED <<fn, max_attempts, delay, exceptions, timeout, attempt,
                   last_exception, outcomes, result>>
    /\ UNCHANGED <<apiVars, extraVars>>

\* the loop is over: raise last_exception (raise None is a TypeError)
RaiseLast ==
    /\ rpc = "for"
    /\ ~RangeHasNext(attempt, max_attempts)
    /\ rpc' = "raised"
    /\ result' = IF last_exception = None
                 THEN Raises(Exc("TypeError",
                                 "exceptions must derive from BaseException", 0))
                 ELSE Raises(last_exception)
    /\ UNCHANGED <<fn, max_attempts, delay, exceptions, timeout, attempt,
                   last_exception, outcomes, events, slept>>
    /\ UNCHANGED <<apiVars, extraVars>>

RetryNext == ForNext \/ Invoke \/ Except \/ Sleep \/ RaiseLast

\* one call of a decorated function, from entry to return or raise
RetrySpec == RetryInit /\ [][RetryNext]_vars

\* every step of the wrapper ends: func returns or raises, sleep returns
RetryFairSpec == RetrySpec /\ WF_vars(RetryNext)

----------------------------------------------------------------------------
(* ApiClient._request over the session built by ApiClient.__init__ *)

\* no decorated function is being called
RetryIdle ==
    /\ fn = "func"
    /\ max_attempts = 0
    /\ delay = 0
    /\ exceptions = {"Exception"}
    /\ timeout = 0
    /\ attempt = 0
    /\ last_exception = None
    /\ rpc = "idle"
    /\ outcomes = <<>>
    /\ events = <<>>
    /\ slept = 0
    /\ result = Returns("")

\* nothing of coreVars is running
CoreIdle ==
    /\ RetryIdle /\ ApiIdle /\ WaitIdle /\ PriceIdle /\ CartIdle /\ CrossIdle
    /\ FixtureIdle

\* ApiClient.get, post, put, delete, head
Methods == {"GET", "POST", "PUT", "DELETE", "HEAD"}

\* Retry(status_forcelist=[500, 502, 503, 504])
StatusForcelist == {500, 502, 503, 504}

\* Retry's allowed_methods, left at its default: the idempotent methods
AllowedMethods == {"HEAD", "GET", "PUT", "DELETE", "OPTIONS", "TRACE"}

\* Retry.RETRY_AFTER_STATUS_CODES, with respect_retry_after_header at its default
RetryAfterStatusCodes == {413, 429, 503}

\* the statuses a server answers with (304 stands for the 3xx answers the
\* session does not follow)
Statuses == {200, 304, 404, 429, 500, 503}

\* str() of the exceptions the session raises for other reasons than a timeout,
\* a refused connection or exhausted retries
ErrMsgs == {"", "Exceeded 30 redirects."}

\* the content-type headers of the answers
ContentTypes == {"application/json; charset=utf-8", "application/problem+json",
                 "text/html", ""}

\* what one dispatch of the request can meet; an answer comes with its
\* content-type header and a body text that is a JSON document or is not
NetOutcomes ==
    {[kind |-> "response", status |-> st, retry_after |-> FALSE, msg |-> "",
      content_type |-> ct, json_text |-> v] :
        st \in Statuses, ct \in ContentTypes, v \in BOOLEAN}
    \cup {[kind |-> "response", status |-> st, retry_after |-> TRUE, msg |-> "",
           content_type |-> ct, json_text |-> v] :
        st \in {429, 503}, ct \in ContentTypes, v \in BOOLEAN}
    \cup {[kind |-> k, status |-> 0, retry_after |-> FALSE, msg |-> "",
           content_type |-> "", json_text |-> FALSE] :
        k \in {"connect_timeout", "read_timeout", "connect_error"}}
    \cup {[kind |-> "request_exception", status |-> 0, retry_after |-> FALSE,
           msg |-> m, content_type |-> "", json_text |-> FALSE] : m \in ErrMsgs}

\* an answer the transport does not hand over: its body is drained and dropped
Drained(net) == [net EXCEPT !.content_type = "", !.json_text = FALSE]

\* Retry.is_retry(method, status_code, has_retry_after)
IsRetry(m, tot, net) ==
    /\ m \in AllowedMethods
    /\ \/ net.status \in StatusForcelist
       \/ /\ tot # 0
          /\ net.retry_after
          /\ net.status \in RetryAfterStatusCodes

\* does the transport see a reason to send the request again?
\* (a response Retry.is_retry accepts, a connection error, or a read error of
\* an allowed method)
WantsRetry(m, tot, net) ==
    CASE net.kind = "response" -> IsRetry(m, tot, net)
      [] net.kind \in {"connect_timeout", "connect_error"} -> TRUE
      [] net.kind = "read_timeout" -> m \in AllowedMethods
      [] OTHER -> FALSE

\* Retry.increment then Retry.is_exhausted: total - 1 < 0
IsExhausted(tot) == tot - 1 < 0

\* the classes of requests.exceptions and their bases
ReqBases(c) ==
    CASE c = "Timeout" -> {"RequestException"}
      [] c = "ConnectionError" -> {"RequestException"}
      [] c = "ConnectTimeout" -> {"ConnectionError", "Timeout"}
      [] c = "ReadTimeout" -> {"Timeout"}
      [] c = "RetryError" -> {"RequestException"}
      [] c = "InvalidJSONError" -> {"RequestException"}
      [] c = "JSONDecodeError" -> {"InvalidJSONError", "ValueError"}
      [] OTHER -> {}

RECURSIVE IsReqSubclass(_, _)
IsReqSubclass(c, d) ==
    \/ c = d
    \/ \E b \in ReqBases(c) : IsReqSubclass(b, d)

\* the exception session.request raises when a dispatch failed for good:
\* raise_on_status is left at its default, so exhausted status retries raise
\* MaxRetryError(ResponseError), which requests turns into RetryError
TransportError(m, net) ==
    CASE net.kind = "response" ->
            [cls |-> "RetryError",
             msg |-> "Max retries exceeded (too many "
                        \o ToString(net.status) \o " error responses)"]
      [] net.kind = "connect_timeout" ->
            [cls |-> "ConnectTimeout",
             msg |-> "Max retries exceeded (ConnectTimeoutError)"]
      [] net.kind = "connect_error" ->
            [cls |-> "ConnectionError",
             msg |-> "Max retries exceeded (NewConnectionError)"]
      [] net.kind = "read_timeout" ->
            IF m \in AllowedMethods
            THEN [cls |-> "ConnectionError",
                  msg |-> "Max retries exceeded (ReadTimeoutError)"]
            ELSE [cls |-> "ReadTimeout", msg |-> "Read timed out."]
      [] OTHER -> [cls |-> "RequestException", msg |-> net.msg]

\* Optional[str]: None is <<>>, a string s is <<s>>
NoneStr == <<>>
Some(x) == <<x>>

RECURSIVE Contains(_, _, _)
\* sub in s, looking from position i on
Contains(s, sub, i) ==
    /\ i + Len(sub) - 1 <= Len(s)
    /\ \/ SubSeq(s, i, i + Len(sub) - 1) = sub
       \/ Contains(s, sub, i + 1)

\* resp.json(): the parsed document, or requests' JSONDecodeError
RespJson(valid) ==
    IF valid
    THEN Returns("parsed")
    ELSE Raises(Exc("JSONDecodeError", "Expecting value: line 1 column 1 (char 0)", 0))

\* except ValueError, around resp.json()
JsonExcept(e) == IsReqSubclass(e.cls, "ValueError")

ParseBodyAnyType(ct, valid) ==
    LET j == RespJson(valid)
    IN  IF j.kind = "return" THEN Returns(Some(j.val)) ELSE Returns(NoneStr)
\* body = None; content_type = resp.headers.get("content-type", "")
\* if "json" in content_type: try: body = resp.json()
\*                            except ValueError: body = None
\* The outcome is the body, or the exception that leaves the inner try.
ParseBody(ct, valid) ==
    IF Contains(ct, "json", 1)
    THEN LET j == RespJson(valid)
         IN  IF j.kind = "return" THEN Returns(Some(j.val))
             ELSE IF JsonExcept(j.exc) THEN Returns(NoneStr)
             ELSE j
    ELSE Returns(NoneStr)

RespOkBelow500(status) == ~(500 <= status /\ status < 600)
\* resp.ok: raise_for_status() does not raise, i.e. the status is no 4xx or 5xx
RespOk(status) == ~(400 <= status /\ status < 600)

\* ApiResponse(status_code=resp.status_code, response_time_ms=elapsed_ms,
\*             body=body, headers=dict(resp.headers), is_success=resp.ok)
ReceivedResponse(status, ct, body, ms) ==
    [status_code |-> status, response_time_ms |-> ms,
     body |-> body, headers |-> ct,
     is_success |-> RespOk(status), error_message |-> NoneStr]

TimeoutResponseDefaults(ms) ==
    [status_code |-> 0, response_time_ms |-> ms, body |-> NoneStr,
     headers |-> "", is_success |-> TRUE,
     error_message |-> Some("Timeout after " \o ToString(API_TIMEOUT) \o "s")]
\* except requests.Timeout: ApiResponse(status_code=0, ..., is_success=False,
\*     error_message=f"Timeout after {settings.API_TIMEOUT}s")
TimeoutResponse(ms) ==
    [status_code |-> 0, response_time_ms |-> ms, body |-> NoneStr,
     headers |-> "", is_success |-> FALSE,
     error_message |-> Some("Timeout after " \o ToString(API_TIMEOUT) \o "s")]

\* except requests.RequestException as exc: ApiResponse(status_code=0, ...,
\*     is_success=False, error_message=str(exc))
ErrorResponse(e, ms) ==
    [status_code |-> 0, response_time_ms |-> ms, body |-> NoneStr,
     headers |-> "", is_success |-> FALSE, error_message |-> Some(e.msg)]

\* the two except clauses of _request, in their order
Handle(e, ms) ==
    IF IsReqSubclass(e.cls, "Timeout")
    THEN [kind |-> "return", resp |-> TimeoutResponse(ms)]
    ELSE IF IsReqSubclass(e.cls, "RequestException")
    THEN [kind |-> "return", resp |-> ErrorResponse(e, ms)]
    ELSE [kind |-> "raise", resp |-> ErrorResponse(e, ms)]

\* round((time.perf_counter() - start) * 1000, 2), two sample values
ElapsedChoices == {12, 15003}

\* _request is entered and session.request called, with the adapter's Retry
ApiInit ==
    /\ RetryIdle
    /\ ExtraIdle
    /\ method \in Methods
    /\ api_max_retries \in 0..MaxApiRetries
    /\ total = api_max_retries
    /\ apc = "request"
    /\ answers = <<>>
    /\ api_result = [kind |-> "none"]

\* a dispatch meets something the transport retries, and retries are left:
\* the request is sent again (after the backoff sleep)
Resend ==
    /\ apc = "request"
    /\ \E net \in NetOutcomes :
        /\ WantsRetry(method, total, net)
        /\ ~IsExhausted(total)
        /\ answers' = Append(answers, Drained(net))
        /\ total' = total - 1
    /\ UNCHANGED <<method, api_max_retries, apc, api_result>>
    /\ UNCHANGED <<retryVars, extraVars>>

\* a dispatch is answered and the transport hands the response to _request,
\* which reads the body and builds the ApiResponse
Receive ==
    /\ apc = "request"
    /\ \E net \in NetOutcomes :
        /\ net.kind = "response"
        /\ ~WantsRetry(method, total, net)
        /\ answers' = Append(answers, net)
        /\ \E ms \in ElapsedChoices :
            LET parsed == ParseBody(net.content_type, net.json_text)
            IN  api_result' =
                    IF parsed.kind = "return"
                    THEN [kind |-> "return",
                          resp |-> ReceivedResponse(net.status, net.content_type,
                                                    parsed.val, ms)]
                    ELSE Handle(parsed.exc, ms)
    /\ apc' = "done"
    /\ UNCHANGED <<method, api_max_retries, total>>
    /\ UNCHANGED <<retryVars, extraVars>>

\* session.request raises: retries are exhausted, or the failure is not one
\* the transport retries; _request's except clauses take over
Fail ==
    /\ apc = "request"
    /\ \E net \in NetOutcomes :
        /\ \/ WantsRetry(method, total, net) /\ IsExhausted(total)
           \/ ~WantsRetry(method, total, net) /\ net.kind # "response"
        /\ answers' = Append(answers, Drained(net))
        /\ \E ms \in ElapsedChoices :
            api_result' = Handle(TransportError(method, net), ms)
    /\ apc' = "done"
    /\ UNCHANGED <<method, api_max_retries, total>>
    /\ UNCHANGED <<retryVars, extraVars>>

ApiNext == Resend \/ Receive \/ Fail

\* one call of ApiClient._request, from entry to return
ApiSpec == ApiInit /\ [][ApiNext]_vars

----------------------------------------------------------------------------
(* utils/waits.py: the polling conditions, under WebDriverWait.until *)

\* bound: the evaluations one wait makes before its deadline has passed
MaxPolls == 3
\* bound: the elements that match the locator
MaxElements == 2
\* bound: the changes of the browser during one wait
MaxBrowserSteps == 1

\* document.readyState
ReadyStates == {"loading", "interactive", "complete"}
\* driver.current_url
Urls == {"https://shop.test/", "https://shop.test/search?q=shirt"}
\* element.text of the first element that matches the locator
Texts == {"  ", "Blue shirt"}
\* len(driver.window_handles)
WindowCounts == {1, 2}

\* the elements that match the locator, in document order: n elements, the
\* first of them with text t
Dom(n, t) == [e \in 1..n |-> IF e = 1 THEN t ELSE "item"]
Doms == {<<>>} \cup {Dom(n, t) : n \in 1..MaxElements, t \in Texts}

\* what the conditions can read of the browser
Browsers == [ready : ReadyStates, dom : Doms, url : Urls, windows : WindowCounts]

\* the condition objects: class name and the fields __init__ stores
Cond(n, c, u) == [name |-> n, count |-> c, url |-> u]
Conds ==
    {Cond("page_has_loaded", 0, ""), Cond("element_has_non_empty_text", 0, ""),
     Cond("url_matches_pattern", 0, "search")}
    \cup {Cond("element_count_is_at_least", n, "") : n \in 0..MaxElements}
    \cup {Cond("element_count_changed", n, "") : n \in 0..MaxElements}
    \cup {Cond("window_count_is", n, "") : n \in WindowCounts}
    \cup {Cond("window_count_greater_than", n, "") : n \in WindowCounts}
    \cup {Cond("url_changed", 0, u) : u \in Urls}

\* what an evaluation gives: True or False, a list of elements, one element,
\* or an exception
BoolV(x) == [kind |-> "bool", truth |-> x, items |-> <<>>, exc |-> ""]
ListV(xs) == [kind |-> "list", truth |-> FALSE, items |-> xs, exc |-> ""]
ElementV(x) == [kind |-> "element", truth |-> FALSE, items |-> <<x>>, exc |-> ""]
RaisesV(c) == [kind |-> "raise", truth |-> FALSE, items |-> <<>>, exc |-> c]

RECURSIVE Strip(_)
\* str.strip(): leading and trailing blanks removed
Strip(t) ==
    IF Len(t) = 0 THEN t
    ELSE IF SubSeq(t, 1, 1) = " " THEN Strip(SubSeq(t, 2, Len(t)))
    ELSE IF SubSeq(t, Len(t), Len(t)) = " " THEN Strip(SubSeq(t, 1, Len(t) - 1))
    ELSE t

IsNotLoading(rs) == rs # "loading"
\* driver.execute_script("return document.readyState") == "complete"
IsComplete(rs) == rs = "complete"

\* condition.__call__(driver): the value it returns or the exception it raises
Eval(c, b) ==
    CASE c.name = "page_has_loaded" -> BoolV(IsComplete(b.ready))
      [] c.name = "element_has_non_empty_text" ->
            IF Len(b.dom) = 0 THEN RaisesV("NoSuchElementException")
            ELSE IF Len(Strip(b.dom[1])) > 0 THEN ElementV(b.dom[1])
            ELSE BoolV(FALSE)
      [] c.name = "element_count_is_at_least" ->
            IF Len(b.dom) >= c.count THEN ListV(b.dom) ELSE BoolV(FALSE)
      [] c.name = "url_matches_pattern" -> BoolV(Contains(b.url, c.url, 1))
      [] c.name = "window_count_is" -> BoolV(b.windows = c.count)
      [] c.name = "window_count_greater_than" -> BoolV(b.windows > c.count)
      [] c.name = "url_changed" -> BoolV(b.url # c.url)
      [] c.name = "element_count_changed" -> BoolV(Len(b.dom) # c.count)

AfterCallRebaseline(c, b) ==
    IF c.name = "element_count_changed" THEN [c EXCEPT !.count = Len(b.dom)]
    ELSE c
\* the condition object after __call__: no __call__ assigns to self
AfterCall(c, b) == c

\* until(): "if value:", Python's truth of the value the condition returned
Truthy(v) ==
    CASE v.kind = "bool" -> v.truth
      [] v.kind = "list" -> Len(v.items) > 0
      [] v.kind = "element" -> TRUE
      [] OTHER -> FALSE

\* WebDriverWait's default ignored_exceptions
IgnoredExceptions == {"NoSuchElementException"}

\* WebDriverWait(driver, timeout).until(condition) is entered
WaitInit ==
    /\ RetryIdle
    /\ ApiIdle
    /\ PageIdle
    /\ PriceIdle
    /\ CartIdle
    /\ CrossIdle
    /\ FixtureIdle
    /\ wcond \in Conds
    /\ browser \in Browsers
    /\ wpc = "poll"
    /\ polls = <<>>
    /\ wait_result = [kind |-> "none"]
    /\ env_steps = 0

\* value = method(self._driver); if value: return value; an ignored exception
\* counts as a falsy value, any other leaves until()
Poll ==
    /\ wpc = "poll"
    /\ LET r == Eval(wcond, browser)
       IN  /\ polls' = Append(polls, [browser |-> browser, result |-> r])
           /\ wcond' = AfterCall(wcond, browser)
           /\ IF r.kind = "raise"
              THEN IF r.exc \in IgnoredExceptions
                   THEN wpc' = "checked" /\ UNCHANGED wait_result
                   ELSE wpc' = "raised" /\ wait_result' = r
              ELSE IF Truthy(r)
                   THEN wpc' = "resolved" /\ wait_result' = r
                   ELSE wpc' = "checked" /\ UNCHANGED wait_result
    /\ UNCHANGED <<browser, env_steps>>
    /\ UNCHANGED <<retryVars, apiVars, priceVars, cartVars, crossVars, fixtureVars,
                   pageVars>>

\* the deadline has not passed: time.sleep(self._poll), then the next evaluation
SleepPoll ==
    /\ wpc = "checked"
    /\ Len(polls) < MaxPolls
    /\ wpc' = "poll"
    /\ UNCHANGED <<wcond, browser, polls, wait_result, env_steps>>
    /\ UNCHANGED <<retryVars, apiVars, priceVars, cartVars, crossVars, fixtureVars,
                   pageVars>>

\* the deadline has passed: raise TimeoutException(message, screen, stacktrace)
Expire ==
    /\ wpc = "checked"
    /\ wpc' = "timed_out"
    /\ wait_result' = RaisesV("TimeoutException")
    /\ UNCHANGED <<wcond, browser, polls, env_steps>>
    /\ UNCHANGED <<retryVars, apiVars, priceVars, cartVars, crossVars, fixtureVars,
                   pageVars>>

\* b2 differs from b in one of the things the conditions read
OneChange(b, b2) ==
    Cardinality({f \in {"ready", "dom", "url", "windows"} : b[f] # b2[f]}) = 1

\* the page goes on loading, rendering, navigating or opening tabs meanwhile
BrowserStep ==
    /\ wpc \in {"poll", "checked"}
    /\ env_steps < MaxBrowserSteps
    /\ \E b2 \in Browsers : OneChange(browser, b2) /\ browser' = b2
    /\ env_steps' = env_steps + 1
    /\ UNCHANGED <<wcond, wpc, polls, wait_result>>
    /\ UNCHANGED <<retryVars, apiVars, priceVars, cartVars, crossVars, fixtureVars,
                   pageVars>>

WaitNext == Poll \/ SleepPoll \/ Expire \/ BrowserStep

\* one wait, from the call of until() to its return or its exception
WaitSpec == WaitInit /\ [][WaitNext]_vars

----------------------------------------------------------------------------
(* core/base_page.py: parse_price; pages/cart_page.py: validate_pricing *)

\* bound: the length of the labels given to parse_price
MaxLabelLen == 4
\* bound: the item-price elements of the cart
MaxItems == 2

\* a float is held exactly, as num / 10^dec with no trailing decimal zero;
\* the labels of the model keep the arithmetic of the code exact
Pow10(k) == IF k = 0 THEN 1 ELSE IF k = 1 THEN 10 ELSE IF k = 2 THEN 100
            ELSE IF k = 3 THEN 1000 ELSE IF k = 4 THEN 10000 ELSE 100000

RECURSIVE Norm(_, _)
Norm(n, d) ==
    IF d > 0 /\ n % 10 = 0 THEN Norm(n \div 10, d - 1) ELSE [num |-> n, dec |-> d]

Zero == Norm(0, 0)
One == Norm(1, 0)
MaxDec(a, b) == IF a.dec >= b.dec THEN a.dec ELSE b.dec
\* a as a count of units of 10^-d
Scaled(a, d) == a.num * Pow10(d - a.dec)
RatAdd(a, b) ==
    Norm(Scaled(a, MaxDec(a, b)) + Scaled(b, MaxDec(a, b)), MaxDec(a, b))
RatSub(a, b) ==
    Norm(Scaled(a, MaxDec(a, b)) - Scaled(b, MaxDec(a, b)), MaxDec(a, b))
RatAbs(a) == IF a.num < 0 THEN [a EXCEPT !.num = 0 - a.num] ELSE a
RatLess(a, b) == Scaled(a, MaxDec(a, b)) < Scaled(b, MaxDec(a, b))

\* \d, for the characters of the labels
DigitChars == {"0", "1", "2", "3", "4", "5", "6", "7", "8", "9"}
DigitVal(c) ==
    CASE c = "0" -> 0 [] c = "1" -> 1 [] c = "2" -> 2 [] c = "3" -> 3
      [] c = "4" -> 4 [] c = "5" -> 5 [] c = "6" -> 6 [] c = "7" -> 7
      [] c = "8" -> 8 [] c = "9" -> 9

Char(t, i) == SubSeq(t, i, i)

RECURSIVE Clean(_)
\* re.sub(r"[^\d.]", "", text)
Clean(t) ==
    IF Len(t) = 0 THEN ""
    ELSE IF Char(t, 1) \in DigitChars \cup {"."}
         THEN Char(t, 1) \o Clean(SubSeq(t, 2, Len(t)))
         ELSE Clean(SubSeq(t, 2, Len(t)))

Dots(t) == {i \in 1..Len(t) : Char(t, i) = "."}

RECURSIVE DigitsVal(_)
\* the number written by the digits of t, its points skipped
DigitsVal(t) ==
    IF Len(t) = 0 THEN 0
    ELSE IF Char(t, Len(t)) = "." THEN DigitsVal(SubSeq(t, 1, Len(t) - 1))
    ELSE DigitsVal(SubSeq(t, 1, Len(t) - 1)) * 10 + DigitVal(Char(t, Len(t)))

\* float(cleaned), for a string of digits and points: at most one point and
\* at least one digit, or ValueError
ParseFloat(t) ==
    IF Cardinality(Dots(t)) > 1 \/ Cardinality(Dots(t)) = Len(t)
    THEN [kind |-> "raise", val |-> Zero, exc |-> "ValueError"]
    ELSE [kind |-> "return",
          val |-> Norm(DigitsVal(t),
                       IF Dots(t) = {} THEN 0
                       ELSE Len(t) - (CHOOSE i \in Dots(t) : TRUE)),
          exc |-> ""]

\* return float(cleaned) if cleaned else 0.0
ParsePrice(t) ==
    IF Len(Clean(t)) > 0
    THEN ParseFloat(Clean(t))
    ELSE [kind |-> "return", val |-> Zero, exc |-> ""]

\* the characters of the labels
Alphabet == {"0", "1", "9", ".", ",", " ", "R", "s", "₹"}

RECURSIVE StringsUpTo(_)
\* the strings over Alphabet of length n at most
StringsUpTo(n) ==
    IF n = 0 THEN {""}
    ELSE StringsUpTo(n - 1)
            \cup {t \o c : t \in StringsUpTo(n - 1), c \in Alphabet}

\* labels of the docstring and of malformed price texts
SampleLabels == {"Rs. 1,299", "₹1299", "1,299.50", "1.2.3"}

Labels == StringsUpTo(MaxLabelLen) \cup SampleLabels

\* parse_price(text) is called
PriceInit ==
    /\ RetryIdle
    /\ ApiIdle
    /\ PageIdle
    /\ WaitIdle
    /\ CartIdle
    /\ CrossIdle
    /\ FixtureIdle
    /\ label \in Labels
    /\ ppc = "call"
    /\ price_result = [kind |-> "none"]

\* the body of parse_price
ParsePriceCall ==
    /\ ppc = "call"
    /\ price_result' = ParsePrice(label)
    /\ ppc' = "done"
    /\ UNCHANGED label
    /\ UNCHANGED <<retryVars, apiVars, waitVars, cartVars, crossVars, fixtureVars,
                   pageVars>>

PriceNext == ParsePriceCall

\* one call of parse_price
PriceSpec == PriceInit /\ [][PriceNext]_vars

\* el.text of the item-price elements, and the text of the cart total; their
\* values are binary fractions, which float arithmetic adds exactly
ItemTexts == {"₹100", "₹99.50", "₹0.50", "", "1.2.3"}
TotalTexts == {"₹100", "₹101", "₹100.50", "₹99.25", "₹199.50", "₹200.50", ""}

RECURSIVE ItemTextSeqs(_)
\* the carts of n item-price elements at most
ItemTextSeqs(n) ==
    IF n = 0 THEN {<<>>}
    ELSE ItemTextSeqs(n - 1)
            \cup {Append(q, t) : q \in ItemTextSeqs(n - 1), t \in ItemTexts}

AnyPrice(price) == TRUE
\* if price > 0:
PositivePrice(price) == RatLess(Zero, price)

RECURSIVE GetItemPrices(_)
\* get_item_prices: for el in elements: price = self.parse_price(el.text);
\*                  if price > 0: prices.append(price)
GetItemPrices(ts) ==
    IF Len(ts) = 0 THEN [kind |-> "return", val |-> <<>>, exc |-> ""]
    ELSE LET before == GetItemPrices(SubSeq(ts, 1, Len(ts) - 1))
             price == ParsePrice(ts[Len(ts)])
         IN  IF before.kind = "raise" THEN before
             ELSE IF price.kind = "raise"
                  THEN [kind |-> "raise", val |-> <<>>, exc |-> price.exc]
             ELSE IF PositivePrice(price.val)
                  THEN [before EXCEPT !.val = Append(before.val, price.val)]
             ELSE before

RECURSIVE SumPrices(_)
\* sum(item_prices)
SumPrices(ps) ==
    IF Len(ps) = 0 THEN Zero
    ELSE RatAdd(SumPrices(SubSeq(ps, 1, Len(ps) - 1)), ps[Len(ps)])

WithinToleranceInclusive(d) == ~RatLess(One, d)
\* difference < 1.0
WithinTolerance(d) == RatLess(d, One)

\* PricingBreakdown(item_prices, displayed_total, calculated_sum, difference,
\*                  is_consistent)
Breakdown(prices, tot) ==
    [kind |-> "return",
     item_prices |-> prices,
     displayed_total |-> tot,
     calculated_sum |-> SumPrices(prices),
     difference |-> RatAbs(RatSub(tot, SumPrices(prices))),
     is_consistent |-> WithinTolerance(RatAbs(RatSub(tot, SumPrices(prices)))),
     exc |-> ""]

\* validate_pricing() is called on a cart page
CartInit ==
    /\ RetryIdle
    /\ ApiIdle
    /\ PageIdle
    /\ WaitIdle
    /\ PriceIdle
    /\ CrossIdle
    /\ FixtureIdle
    /\ item_labels \in ItemTextSeqs(MaxItems)
    /\ total_label \in TotalTexts
    /\ cpc = "call"
    /\ breakdown = [kind |-> "none"]

\* the body of validate_pricing: get_item_prices(), get_cart_total(), the
\* sum, the difference and the flag; a ValueError of parse_price leaves it
ValidatePricing ==
    /\ cpc = "call"
    /\ LET items == GetItemPrices(item_labels)
           tot == ParsePrice(total_label)
       IN  breakdown' =
               IF items.kind = "raise" THEN [kind |-> "raise", exc |-> items.exc]
               ELSE IF tot.kind = "raise" THEN [kind |-> "raise", exc |-> tot.exc]
               ELSE Breakdown(items.val, tot.val)
    /\ cpc' = "done"
    /\ UNCHANGED <<item_labels, total_label>>
    /\ UNCHANGED <<retryVars, apiVars, waitVars, priceVars, crossVars, fixtureVars,
                   pageVars>>

CartNext == ValidatePricing

\* one call of validate_pricing
CartSpec == CartInit /\ [][CartNext]_vars

----------------------------------------------------------------------------
(* tests/ui/test_cross_layer.py: test_pdp_price_matches_api_price, steps 3-5 *)

\* a key the SKU entry does not have
Absent == [num |-> 0 - 1, dec |-> 0]

\* the values of "price", "selling_price" and "sp" in the first SKU entry
FieldValues == {Absent, Zero, Norm(4995, 1), Norm(500, 0), Norm(5015, 1)}

SkuEntries == [price : FieldValues, selling_price : FieldValues, sp : FieldValues]

\* the JSON documents the inventory endpoint answers with: {}, a document
\* without inventory details, a document whose first SKU entry is sku
Payloads ==
    {[kind |-> "empty", inventory |-> <<>>],
     [kind |-> "document", inventory |-> <<>>]}
    \cup {[kind |-> "document", inventory |-> <<sku>>] : sku \in SkuEntries}

\* product.get_selling_price(), after "assert ui_price > 0"
UiPrices == {Norm(499, 0), Norm(5005, 1)}

\* service.get_product_details(product_id): the ApiResponse of a GET
InventoryResponses ==
    {ReceivedResponse(st, "application/json; charset=utf-8", body, 12) :
        st \in {200, 403, 404}, body \in {NoneStr} \cup {Some(d) : d \in Payloads}}
    \cup {TimeoutResponse(15003)}

\* the attributes of the frozen dataclass ApiResponse
ApiResponseFields ==
    {"status_code", "response_time_ms", "body", "headers", "is_success",
     "error_message"}

\* api_response.<name>: the value, or AttributeError
GetAttr(resp, name) ==
    IF name \in ApiResponseFields
    THEN [kind |-> "return", val |-> resp[name], exc |-> ""]
    ELSE [kind |-> "raise", val |-> NoneStr, exc |-> "AttributeError"]

\* how the try block of the test ends
Passed(price) == [outcome |-> "passed", why |-> "", api_price |-> price]
Failed(why, price) == [outcome |-> "failed", why |-> why, api_price |-> price]
Skipped(why) == [outcome |-> "skipped", why |-> why, api_price |-> Zero]

\* sku_data.get(key, 0) or 0
GetOrZero(sku, key) == IF sku[key] = Absent THEN Zero ELSE sku[key]

\* api_price = float(sku_data.get("price", 0) or 0); if api_price == 0:
\*     api_price = float(sku_data.get("selling_price", 0)
\*                       or sku_data.get("sp", 0) or 0)
ApiPrice(sku) ==
    IF GetOrZero(sku, "price") # Zero THEN GetOrZero(sku, "price")
    ELSE IF GetOrZero(sku, "selling_price") # Zero
         THEN GetOrZero(sku, "selling_price")
         ELSE GetOrZero(sku, "sp")

\* diff = abs(ui_price - api_price); assert diff <= tolerance
WithinCrossTolerance(ui, api) == ~RatLess(One, RatAbs(RatSub(ui, api)))

\* lines 96-135: "assert data", the inventory details, the first SKU entry,
\* its price and the comparison
ExtractAndCompare(data, ui) ==
    IF data = NoneStr \/ data[1].kind = "empty"
    THEN Failed("AssertionError: API returned empty response body", Zero)
    ELSE IF Len(data[1].inventory) = 0
    THEN Skipped("No inventory data")
    ELSE IF ApiPrice(data[1].inventory[1]) = Zero
    THEN Skipped("Could not extract price")
    ELSE IF WithinCrossTolerance(ui, ApiPrice(data[1].inventory[1]))
    THEN Passed(ApiPrice(data[1].inventory[1]))
    ELSE Failed("AssertionError: Price mismatch", ApiPrice(data[1].inventory[1]))

\* lines 85-135: the status checks, "data = api_response.json_body" and the
\* rest of steps 4 and 5
TestBody(resp, ui) ==
    IF resp.status_code = 403 THEN Skipped("WAF blocked API request")
    ELSE IF resp.status_code # 200
    THEN Failed("AssertionError: Inventory API returned", Zero)
    ELSE IF GetAttr(resp, "json_body").kind = "raise"
    THEN Failed(GetAttr(resp, "json_body").exc, Zero)
    ELSE ExtractAndCompare(GetAttr(resp, "json_body").val, ui)

RunsAfterPassOnly(outcome) == outcome.outcome = "passed"
\* try: ... finally: the finally clause runs however the try block is left
FinallyRuns(outcome) == TRUE

\* step 3 is reached: api_client = ApiClient(), and the try block is entered
CrossInit ==
    /\ RetryIdle
    /\ ApiIdle
    /\ PageIdle
    /\ WaitIdle
    /\ PriceIdle
    /\ CartIdle
    /\ FixtureIdle
    /\ ui_price \in UiPrices
    /\ api_response = [status_code |-> 0]
    /\ xpc = "query"
    /\ test_outcome = [outcome |-> "none"]
    /\ closes = 0

\* api_response = service.get_product_details(product_id)
QueryInventory ==
    /\ xpc = "query"
    /\ api_response' \in InventoryResponses
    /\ xpc' = "check"
    /\ UNCHANGED <<ui_price, test_outcome, closes>>
    /\ UNCHANGED <<retryVars, apiVars, waitVars, priceVars, cartVars, fixtureVars,
                   pageVars>>

\* the rest of the try block, up to its end or to the exception that leaves it
CheckPrices ==
    /\ xpc = "check"
    /\ test_outcome' = TestBody(api_response, ui_price)
    /\ xpc' = "finally"
    /\ UNCHANGED <<ui_price, api_response, closes>>
    /\ UNCHANGED <<retryVars, apiVars, waitVars, priceVars, cartVars, fixtureVars,
                   pageVars>>

\* finally: api_client.close()
CloseClient ==
    /\ xpc = "finally"
    /\ closes' = IF FinallyRuns(test_outcome) THEN closes + 1 ELSE closes
    /\ xpc' = "done"
    /\ UNCHANGED <<ui_price, api_response, test_outcome>>
    /\ UNCHANGED <<retryVars, apiVars, waitVars, priceVars, cartVars, fixtureVars,
                   pageVars>>

CrossNext == QueryInventory \/ CheckPrices \/ CloseClient

\* steps 3 to 5 of the test, for one product page
CrossSpec == CrossInit /\ [][CrossNext]_vars

----------------------------------------------------------------------------
(* conftest.py: the driver fixture and _capture_screenshot_on_failure *)

\* bound: the tests of one session
MaxTests == 2
\* bound: the requests the tests of one session issue through api_client
MaxRequests == 3

\* the function-scoped autouse fixtures of conftest.py
AutouseFixtures == <<"_capture_screenshot_on_failure">>

\* the order in which pytest sets up the fixtures of a test: the
\* session-scoped api_client before the function-scoped ones, and of these
\* the autouse fixtures first, then the fixtures the test names as arguments;
\* _capture_screenshot_on_failure asks for "request" only, not for "driver"
FixtureOrder(withApi, withDriver) ==
    (IF withApi THEN <<"api_client">> ELSE <<>>)
        \o AutouseFixtures \o (IF withDriver THEN <<"driver">> ELSE <<>>)

RecreatedClient(c) ==
    [made |-> c.made + 1, state |-> "open", closes |-> c.closes,
     left |-> API_MAX_RETRIES]
\* @pytest.fixture(scope="session") api_client: client = ApiClient() for the
\* first test that names it, the same object for every later one
SessionClient(c) ==
    IF c.state = "none"
    THEN [made |-> c.made + 1, state |-> "open", closes |-> c.closes,
          left |-> API_MAX_RETRIES]
    ELSE c

StartTotalLeftOver(left) == left
\* HTTPAdapter(max_retries=retry_strategy): every request starts from the
\* adapter's Retry object, which a request does not consume
StartTotal(left) == API_MAX_RETRIES


\* how the call phase of a test ends
CallOutcomes == {"passed", "failed", "skipped"}

\* request.node.funcargs.get("driver"): the driver of the current test
CurrentDriver == {d \in 1..Len(drivers) : drivers[d].test = test_no}

\* capture_screenshot(driver, name): driver.save_screenshot(filepath) inside
\* try/except Exception; a driver that was quit raises, and "" is returned
CaptureScreenshot(d) ==
    [test |-> test_no, driver |-> d, alive |-> drivers[d].state = "alive",
     path |-> IF drivers[d].state = "alive" THEN "FAIL_test.png" ELSE ""]

QuitsOnlyAfterPass(rep) == rep = "passed"
\* yield _driver; _driver.quit(): pytest runs the code after the yield of a
\* fixture that was set up, however the call phase of the test ended
QuitsAfter(rep) == TRUE

\* the session starts
FixtureInit ==
    /\ RetryIdle
    /\ ApiIdle
    /\ PageIdle
    /\ WaitIdle
    /\ PriceIdle
    /\ CartIdle
    /\ CrossIdle
    /\ screenshot_on \in BOOLEAN
    /\ test_no = 0
    /\ uses_driver = FALSE
    /\ fpc = "idle"
    /\ active = <<>>
    /\ rep_call = "none"
    /\ drivers = <<>>
    /\ shots = <<>>
    /\ finished = <<>>
    /\ uses_api = FALSE
    /\ client = [made |-> 0, state |-> "none", closes |-> 0, left |-> 0]
    /\ requests = <<>>

\* pytest goes on to the next test of the session
StartTest ==
    /\ fpc = "idle"
    /\ test_no < MaxTests
    /\ test_no' = test_no + 1
    /\ uses_driver' \in BOOLEAN
    /\ uses_api' \in BOOLEAN
    /\ fpc' = "setup"
    /\ rep_call' = "none"
    /\ UNCHANGED <<screenshot_on, active, drivers, shots, finished, client,
                   requests>>
    /\ UNCHANGED <<retryVars, apiVars, waitVars, priceVars, cartVars, crossVars,
                   pageVars>>

\* the next fixture is set up, up to its yield: api_client gives the
\* session's ApiClient, driver creates the WebDriver,
\* _capture_screenshot_on_failure does nothing before its yield
SetupFixture ==
    /\ fpc = "setup"
    /\ Len(active) < Len(FixtureOrder(uses_api, uses_driver))
    /\ LET f == FixtureOrder(uses_api, uses_driver)[Len(active) + 1]
       IN  /\ active' = Append(active, f)
           /\ drivers' = IF f = "driver"
                         THEN Append(drivers, [test |-> test_no, state |-> "alive",
                                               quits |-> 0])
                         ELSE drivers
           /\ client' = IF f = "api_client" THEN SessionClient(client) ELSE client
    /\ UNCHANGED <<screenshot_on, test_no, uses_driver, fpc, rep_call, shots,
                   finished, uses_api, requests>>
    /\ UNCHANGED <<retryVars, apiVars, waitVars, priceVars, cartVars, crossVars,
                   pageVars>>

\* the running test issues a request through api_client: the transport
\* resends it `used` times, within the retry total the request starts with
IssueRequest ==
    /\ fpc = "setup"
    /\ Len(active) = Len(FixtureOrder(uses_api, uses_driver))
    /\ uses_api
    /\ Len(requests) < MaxRequests
    /\ \E used \in 0..StartTotal(client.left) :
        /\ requests' = Append(requests,
                [test |-> test_no, client |-> client.made,
                 open |-> client.state = "open",
                 total |-> StartTotal(client.left), used |-> used])
        /\ client' = [client EXCEPT !.left = StartTotal(client.left) - used]
    /\ UNCHANGED <<screenshot_on, test_no, uses_driver, fpc, active, rep_call,
                   drivers, shots, finished, uses_api>>
    /\ UNCHANGED <<retryVars, apiVars, waitVars, priceVars, cartVars, crossVars,
                   pageVars>>

\* the test function ends, and pytest_runtest_makereport stores its report
\* as item.rep_call
CallTest ==
    /\ fpc = "setup"
    /\ Len(active) = Len(FixtureOrder(uses_api, uses_driver))
    /\ rep_call' \in CallOutcomes
    /\ fpc' = "teardown"
    /\ UNCHANGED <<screenshot_on, test_no, uses_driver, active, drivers, shots,
                   finished, clientVars>>
    /\ UNCHANGED <<retryVars, apiVars, waitVars, priceVars, cartVars, crossVars,
                   pageVars>>

\* the fixture set up last is torn down: the code after its yield runs
\* (not that of api_client, which lives on to the end of the session).
\* driver: _driver.quit(). _capture_screenshot_on_failure: if rep and
\* rep.failed and settings.SCREENSHOT_ON_FAILURE: driver = funcargs.get(
\* "driver"); if driver: capture_screenshot(driver, ...)
TeardownFixture ==
    /\ fpc = "teardown"
    /\ Len(active) > 0
    /\ LET f == active[Len(active)]
       IN  /\ active' = SubSeq(active, 1, Len(active) - 1)
           /\ drivers' =
                IF f = "driver"
                THEN [d \in 1..Len(drivers) |->
                        IF d \in CurrentDriver /\ QuitsAfter(rep_call)
                        THEN [drivers[d] EXCEPT !.state = "quit",
                                                !.quits = drivers[d].quits + 1]
                        ELSE drivers[d]]
                ELSE drivers
           /\ shots' =
                IF /\ f = "_capture_screenshot_on_failure"
                   /\ rep_call = "failed"
                   /\ screenshot_on
                   /\ CurrentDriver # {}
                THEN Append(shots, CaptureScreenshot(CHOOSE d \in CurrentDriver : TRUE))
                ELSE shots
    /\ UNCHANGED <<screenshot_on, test_no, uses_driver, fpc, rep_call, finished,
                   clientVars>>
    /\ UNCHANGED <<retryVars, apiVars, waitVars, priceVars, cartVars, crossVars,
                   pageVars>>

\* every fixture of the test is torn down: the test is over
FinishTest ==
    /\ fpc = "teardown"
    /\ Len(active) = 0
    /\ finished' = Append(finished, [test |-> test_no, uses_driver |-> uses_driver,
                                     rep_call |-> rep_call])
    /\ fpc' = "idle"
    /\ UNCHANGED <<screenshot_on, test_no, uses_driver, active, rep_call,
                   drivers, shots, clientVars>>
    /\ UNCHANGED <<retryVars, apiVars, waitVars, priceVars, cartVars, crossVars,
                   pageVars>>

\* the session is over: the session fixtures are torn down, api_client by
\* client.close()
EndSession ==
    /\ fpc = "idle"
    /\ fpc' = "ended"
    /\ client' = IF client.state = "open"
                 THEN [client EXCEPT !.state = "closed",
                                     !.closes = client.closes + 1]
                 ELSE client
    /\ UNCHANGED <<screenshot_on, test_no, uses_driver, active, rep_call,
                   drivers, shots, finished, uses_api, requests>>
    /\ UNCHANGED <<retryVars, apiVars, waitVars, priceVars, cartVars, crossVars,
                   pageVars>>

FixtureNext ==
    \/ StartTest \/ SetupFixture \/ IssueRequest \/ CallTest
    \/ TeardownFixture \/ FinishTest \/ EndSession


\* one pytest session
FixtureSpec == FixtureInit /\ [][FixtureNext]_vars

----------------------------------------------------------------------------
(* The three price-tolerance checks *)

\* prices in rupees; their differences are binary fractions, exact in floats
TolerancePrices ==
    {Norm(499, 0), Norm(4995, 1), Norm(49975, 2), Norm(500, 0), Norm(50025, 2),
     Norm(5005, 1), Norm(501, 0), Norm(5015, 1), Norm(502, 0), Norm(1, 0),
     Norm(2, 0)}

PdpInCartInclusive(cp, pdp) == ~RatLess(One, RatAbs(RatSub(cp, pdp)))
\* abs(cp - pdp_price) < 1.0
PdpInCart(cp, pdp) == RatLess(RatAbs(RatSub(cp, pdp)), One)

\* two prices are about to be compared
ToleranceInit ==
    /\ CoreIdle /\ SearchIdle /\ CardsIdle /\ PopupIdle
    /\ shown_price \in TolerancePrices
    /\ other_price \in TolerancePrices
    /\ tpc = "compare"
    /\ verdicts = [kind |-> "none"]

\* the same pair of prices goes through validate_pricing's is_consistent,
\* the cross-layer test's assertion and the PDP-vs-cart test's any(...)
CompareThreeWays ==
    /\ tpc = "compare"
    /\ verdicts' =
          [kind |-> "done",
           is_consistent |-> WithinTolerance(RatAbs(RatSub(shown_price, other_price))),
           cross_layer |-> WithinCrossTolerance(shown_price, other_price),
           price_found |-> PdpInCart(other_price, shown_price)]
    /\ tpc' = "done"
    /\ UNCHANGED <<shown_price, other_price>>
    /\ UNCHANGED <<coreVars, searchVars, cardsVars, popupVars>>

ToleranceNext == CompareThreeWays

\* one pair of prices through the three checks
ToleranceSpec == ToleranceInit /\ [][ToleranceNext]_vars

----------------------------------------------------------------------------
(* pages/home_page.py: HomePage.search_product *)

\* bound: the evaluations of one url-change wait
MaxUrlPolls == 3

Queries == {"lipstick", "mac studio fix", " ", ""}
HomeUrls == {"https://www.nykaa.com/", "https://www.nykaa.com/?root=logo"}

\* where the search form sends the browser
ResultsUrl(q) == "https://www.nykaa.com/search/result/?q=" \o q

\* EC.url_changes(url): lambda driver: url != driver.current_url
UrlChanges(url, now) == url # now

\* search_el has been found, cleared and filled with the query
SearchInit ==
    /\ CoreIdle /\ ToleranceIdle /\ CardsIdle /\ PopupIdle
    /\ query \in Queries
    /\ current_url \in HomeUrls
    /\ submit_url = ""
    /\ original_url = ""
    /\ spc = "submit"
    /\ url_polls = <<>>
    /\ search_outcome = "none"

\* search_el.send_keys(Keys.RETURN)
SubmitQuery ==
    /\ spc = "submit"
    /\ submit_url' = current_url
    /\ spc' = "strip"
    /\ UNCHANGED <<query, current_url, original_url, url_polls, search_outcome>>
    /\ UNCHANGED <<coreVars, toleranceVars, cardsVars, popupVars>>

\* the browser, on its own time, follows the submitted form
Navigate ==
    /\ spc \in {"strip", "poll", "checked"}
    /\ current_url = submit_url
    /\ current_url' = ResultsUrl(query)
    /\ UNCHANGED <<query, submit_url, original_url, spc, url_polls,
                   search_outcome>>
    /\ UNCHANGED <<coreVars, toleranceVars, cardsVars, popupVars>>

\* if query.strip(): WebDriverWait(...).until(EC.url_changes(
\* self.driver.current_url)) is built, its argument evaluated first
CaptureUrl ==
    /\ spc = "strip"
    /\ IF Len(Strip(query)) > 0
       THEN /\ original_url' = current_url
            /\ spc' = "poll"
            /\ UNCHANGED search_outcome
       ELSE /\ spc' = "done"
            /\ search_outcome' = "returned"
            /\ UNCHANGED original_url
    /\ UNCHANGED <<query, current_url, submit_url, url_polls>>
    /\ UNCHANGED <<coreVars, toleranceVars, cardsVars, popupVars>>

\* until(): value = method(self._driver); if value: return value
PollUrl ==
    /\ spc = "poll"
    /\ url_polls' = Append(url_polls, current_url)
    /\ IF UrlChanges(original_url, current_url)
       THEN spc' = "done" /\ search_outcome' = "returned"
       ELSE spc' = "checked" /\ UNCHANGED search_outcome
    /\ UNCHANGED <<query, current_url, submit_url, original_url>>
    /\ UNCHANGED <<coreVars, toleranceVars, cardsVars, popupVars>>

\* the deadline has not passed: time.sleep(self._poll), then the next evaluation
SleepUrl ==
    /\ spc = "checked"
    /\ Len(url_polls) < MaxUrlPolls
    /\ spc' = "poll"
    /\ UNCHANGED <<query, current_url, submit_url, original_url, url_polls,
                   search_outcome>>
    /\ UNCHANGED <<coreVars, toleranceVars, cardsVars, popupVars>>

\* the deadline has passed: until() raises TimeoutException, and
\* except Exception: logger.debug(...) swallows it
ExpireUrl ==
    /\ spc = "checked"
    /\ spc' = "done"
    /\ search_outcome' = "timeout swallowed"
    /\ UNCHANGED <<query, current_url, submit_url, original_url, url_polls>>
    /\ UNCHANGED <<coreVars, toleranceVars, cardsVars, popupVars>>

SearchNext ==
    \/ SubmitQuery \/ Navigate \/ CaptureUrl
    \/ PollUrl \/ SleepUrl \/ ExpireUrl

\* one call of search_product, from the submit keystroke on
SearchSpec == SearchInit /\ [][SearchNext]_vars

----------------------------------------------------------------------------
(* pages/search_results_page.py: get_product_cards and its callers *)

\* bound: the product cards of a page
MaxCards == 2
\* bound: the evaluations of one wait for cards
MaxCardPolls == 2
\* bound: the re-renderings of the page during the calls
MaxRenders == 2

\* driver.find_elements(*self.PRODUCT_CARDS): the cards of the rendering the
\* browser shows at this moment
FindElements(doc) == doc

\* return self.driver.find_elements(*self.PRODUCT_CARDS): the value of
\* until() is dropped and the page is queried again
ReturnedCards(seen, doc) == FindElements(doc)

\* the test calls results.has_results() on a search results page
CardsInit ==
    /\ CoreIdle /\ ToleranceIdle /\ SearchIdle /\ PopupIdle
    /\ document \in {[gen |-> 0, n |-> n] : n \in 0..MaxCards}
    /\ caller = "has_results"
    /\ kpc = "wait"
    /\ card_polls = 0
    /\ observed = <<>>
    /\ returned = <<>>
    /\ has_results = <<>>
    /\ clicked = "none"
    /\ renders = 0

\* element_count_is_at_least(PRODUCT_CARDS, 1).__call__ under until():
\* elements = driver.find_elements(...); if len(elements) >= 1: return elements
PollCards ==
    /\ kpc = "wait"
    /\ card_polls' = card_polls + 1
    /\ IF FindElements(document).n >= 1
       THEN /\ observed' = <<FindElements(document)>>
            /\ kpc' = "find"
       ELSE /\ kpc' = "checked"
            /\ UNCHANGED observed
    /\ UNCHANGED <<document, caller, returned, has_results, clicked, renders>>
    /\ UNCHANGED <<coreVars, toleranceVars, searchVars, popupVars>>

\* the deadline has not passed: time.sleep(self._poll), then the next evaluation
SleepCards ==
    /\ kpc = "checked"
    /\ card_polls < MaxCardPolls
    /\ kpc' = "wait"
    /\ UNCHANGED <<document, caller, card_polls, observed, returned,
                   has_results, clicked, renders>>
    /\ UNCHANGED <<coreVars, toleranceVars, searchVars, popupVars>>

\* the deadline has passed: TimeoutException; except Exception: return []
ExpireCards ==
    /\ kpc = "checked"
    /\ returned' = <<[gen |-> document.gen, n |-> 0]>>
    /\ kpc' = "returned"
    /\ UNCHANGED <<document, caller, card_polls, observed, has_results,
                   clicked, renders>>
    /\ UNCHANGED <<coreVars, toleranceVars, searchVars, popupVars>>

\* the wait is over: return self.driver.find_elements(*self.PRODUCT_CARDS)
FindCards ==
    /\ kpc = "find"
    /\ returned' = <<ReturnedCards(observed, document)>>
    /\ kpc' = "returned"
    /\ UNCHANGED <<document, caller, card_polls, observed, has_results,
                   clicked, renders>>
    /\ UNCHANGED <<coreVars, toleranceVars, searchVars, popupVars>>

\* the page renders its product grid anew, with as many cards or others
Rerender ==
    /\ kpc \in {"wait", "checked", "find", "returned"}
    /\ renders < MaxRenders
    /\ \E n \in 0..MaxCards : document' = [gen |-> document.gen + 1, n |-> n]
    /\ renders' = renders + 1
    /\ UNCHANGED <<caller, kpc, card_polls, observed, returned, has_results,
                   clicked>>
    /\ UNCHANGED <<coreVars, toleranceVars, searchVars, popupVars>>

\* has_results(): return self.get_product_count() > 0; the test asserts it
\* and goes on to results.click_first_product()
AnswerHasResults ==
    /\ kpc = "returned"
    /\ caller = "has_results"
    /\ has_results' = <<returned[1].n > 0>>
    /\ IF returned[1].n > 0
       THEN /\ caller' = "click_first_product"
            /\ kpc' = "wait"
            /\ card_polls' = 0
            /\ observed' = <<>>
            /\ returned' = <<>>
       ELSE /\ kpc' = "done"
            /\ UNCHANGED <<caller, card_polls, observed, returned>>
    /\ UNCHANGED <<document, clicked, renders>>
    /\ UNCHANGED <<coreVars, toleranceVars, searchVars, popupVars>>

\* click_first_product(): cards = self.get_product_cards(); if cards:
\* cards[0].click() else: logger.warning("No product cards found to click")
ClickFirstProduct ==
    /\ kpc = "returned"
    /\ caller = "click_first_product"
    /\ clicked' = IF returned[1].n > 0 THEN "clicked" ELSE "no cards"
    /\ kpc' = "done"
    /\ UNCHANGED <<document, caller, card_polls, observed, returned,
                   has_results, renders>>
    /\ UNCHANGED <<coreVars, toleranceVars, searchVars, popupVars>>

CardsNext ==
    \/ PollCards \/ SleepCards \/ ExpireCards \/ FindCards \/ Rerender
    \/ AnswerHasResults \/ ClickFirstProduct

\* has_results() and then click_first_product() on a page that may re-render
CardsSpec == CardsInit /\ [][CardsNext]_vars

----------------------------------------------------------------------------
(* core/base_page.py: BasePage.dismiss_popups *)

\* overlay_selectors
OverlaySelectors ==
    <<"div.modal-backdrop", "div[class*='overlay']", "div[class*='Overlay']">>

\* close_selectors
CloseSelectors ==
    <<"button[class*='close']", "span[class*='close']", "[class*='dismiss']",
      "[aria-label='Close']">>

\* the strategies in the order of the function body
Strategies == <<"Escape">> \o OverlaySelectors \o CloseSelectors

SwallowsNothing(e) == FALSE
\* except (TimeoutException, NoSuchElementException): continue
Swallowed(e) == e \in {"TimeoutException", "NoSuchElementException"}

\* WebDriverWait(self.driver, timeout).until(...): the element, the timeout,
\* or a failure of the driver
PopupWaitOutcomes(selector) ==
    IF selector \in popup_dom
    THEN {"found", "WebDriverException"}
    ELSE {"TimeoutException", "WebDriverException"}

\* overlay.click() / btn.click()
PopupClickOutcomes == {"clicked", "ElementClickInterceptedException"}

\* dismiss_popups() is called on a page
PopupInit ==
    /\ CoreIdle /\ ToleranceIdle /\ SearchIdle /\ CardsIdle
    /\ popup_dom \in SUBSET {Strategies[k] : k \in 2..Len(Strategies)}
    /\ dpc = "run"
    /\ tried = <<>>
    /\ clicks = 0

\* strategy 1: ActionChains(self.driver).send_keys(Keys.ESCAPE).perform(),
\* inside try/except Exception: pass
PressEscape ==
    /\ dpc = "run"
    /\ Len(tried) = 0
    /\ \E o \in {"sent", "WebDriverException"} :
          tried' = Append(tried, [strategy |-> Strategies[1], outcome |-> o])
    /\ UNCHANGED <<popup_dom, dpc, clicks>>
    /\ UNCHANGED <<coreVars, toleranceVars, searchVars, cardsVars>>

\* strategies 2 and 3, one turn of their for loops: the wait, the click and
\* the return, or the except clause and the next selector
TrySelector ==
    /\ dpc = "run"
    /\ Len(tried) >= 1
    /\ Len(tried) < Len(Strategies)
    /\ LET selector == Strategies[Len(tried) + 1]
       IN  \E w \in PopupWaitOutcomes(selector), c \in PopupClickOutcomes :
            LET o == IF w = "found" THEN c ELSE w
            IN  /\ tried' = Append(tried, [strategy |-> selector, outcome |-> o])
                /\ clicks' = IF w = "found" THEN clicks + 1 ELSE clicks
                /\ dpc' = IF o = "clicked" THEN "returned"
                          ELSE IF Swallowed(o) THEN "run"
                          ELSE "raised"
    /\ UNCHANGED popup_dom
    /\ UNCHANGED <<coreVars, toleranceVars, searchVars, cardsVars>>

\* both loops are over: logger.debug("No popup detected ...")
NothingToDismiss ==
    /\ dpc = "run"
    /\ Len(tried) = Len(Strategies)
    /\ dpc' = "returned"
    /\ UNCHANGED <<popup_dom, tried, clicks>>
    /\ UNCHANGED <<coreVars, toleranceVars, searchVars, cardsVars>>

PopupNext == PressEscape \/ TrySelector \/ NothingToDismiss

\* one call of dismiss_popups
PopupSpec == PopupInit /\ [][PopupNext]_vars

----------------------------------------------------------------------------
(* Properties of the retry wrapper *)

Terminated == rpc \in {"returned", "raised"}

\* an invocation that raised an instance of one of the classes of `exceptions`
RetryableFailure(o) ==
    o.kind = "raise" /\ \E d \in exceptions : IsSubclass(o.exc.cls, d)

\* an invocation that raised anything else
OtherFailure(o) == o.kind = "raise" /\ ~RetryableFailure(o)

AllRetryableFailures == \A i \in 1..Len(outcomes) : RetryableFailure(outcomes[i])

IsCallOrSleep(e) == e \in {"call", "sleep"}
CallsAndSleeps == SelectSeq(events, IsCallOrSleep)
NumSleeps == Cardinality({j \in 1..Len(events) : events[j] = "sleep"})
BasePageFns == {"find_element", "click"}
Stale == "StaleElementReferenceException"

\* C1: with max_attempts >= 1, a call in which every invocation raised a
\* retryable exception ends only after exactly max_attempts invocations, and it
\* ends by raising the very object the last invocation raised (same class, same
\* message, same object), neither wrapped nor swallowed.
C1_ExhaustionRaisesLast ==
    (Terminated /\ max_attempts >= 1 /\ AllRetryableFailures)
        => /\ Len(outcomes) = max_attempts
           /\ rpc = "raised"
           /\ result = outcomes[max_attempts]
           /\ result.exc.id = max_attempts

C1_Witness ==
    /\ rpc = "raised" /\ fn = "func" /\ max_attempts = 3
    /\ Len(outcomes) = 3 /\ AllRetryableFailures
    /\ outcomes[1].exc.cls # outcomes[3].exc.cls
    /\ outcomes[2].exc.msg # outcomes[3].exc.msg
    /\ result.exc = outcomes[3].exc

\* C2: for k < max_attempts, when the first k invocations raised retryable
\* exceptions the wrapper goes on to invocation k+1 (it has not ended), and
\* when that invocation returns v the wrapper returns v after exactly k+1
\* invocations: nothing is invoked after the first success.
C2_SuccessAfterKFailures ==
    /\ (AllRetryableFailures /\ Len(outcomes) < max_attempts) => ~Terminated
    /\ \A k \in 0..(max_attempts - 1) :
          ( /\ Len(outcomes) >= k + 1
            /\ \A i \in 1..k : RetryableFailure(outcomes[i])
            /\ outcomes[k + 1].kind = "return" )
          => /\ Len(outcomes) = k + 1
             /\ rpc = "returned"
             /\ result = Returns(outcomes[k + 1].val)

C2_Witness ==
    /\ rpc = "returned" /\ fn = "func" /\ max_attempts = 3
    /\ Len(outcomes) = 3
    /\ RetryableFailure(outcomes[1]) /\ RetryableFailure(outcomes[2])
    /\ result = Returns("v2")

\* C3: an invocation that raises an exception that is no instance of a class
\* of `exceptions` is the last one: the wrapper ends at once by raising that
\* object, with no sleep and no log record after the call; on the first
\* invocation that makes exactly one call and no sleep at all.
C3_NonRetryablePropagatesAtOnce ==
    \A i \in 1..Len(outcomes) :
        OtherFailure(outcomes[i])
        => /\ i = Len(outcomes)
           /\ rpc = "raised"
           /\ result = outcomes[i]
           /\ events[Len(events)] = "call"
           /\ (i = 1 => events = <<"call">> /\ slept = 0)

C3_Witness ==
    /\ rpc = "raised" /\ max_attempts = 3 /\ Len(outcomes) = 1
    /\ OtherFailure(outcomes[1])
    /\ IsSubclass(outcomes[1].exc.cls, "Exception")
    /\ slept = 0

\* C4: at every moment of a call no invocation lies beyond max_attempts, and
\* every invocation that was followed by another one raised a retryable
\* exception; and the call ends, given that each invocation and each sleep ends.
C4_BoundedAttempts ==
    /\ [](\A i \in 1..Len(outcomes) : i <= max_attempts)
    /\ [](\A i \in 1..(Len(outcomes) - 1) : RetryableFailure(outcomes[i]))
    /\ <>Terminated

C4_Witness ==
    /\ Terminated /\ Len(outcomes) = max_attempts /\ max_attempts = 3
    /\ outcomes[1].exc.cls = "ElementNotFoundError"
    /\ outcomes[2].exc.cls = Stale
    /\ OtherFailure(outcomes[3])

\* C5 as stated: a stale-reference failure of BasePage.find_element or
\* BasePage.click never reaches the caller.
C5_StaleNeverSurfaces ==
    (fn \in BasePageFns /\ rpc = "raised") => result.exc.cls # Stale

\* C5, amended: a stale-reference failure of BasePage.find_element or
\* BasePage.click is retried while fewer than 3 invocations have been made; it
\* reaches the caller exactly when 3 consecutive invocations raised it, and
\* then it is the third invocation's exception.
C5_StaleSurfacesOnlyAfterThree ==
    fn \in BasePageFns =>
        /\ \A i \in 1..Len(outcomes) :
                (outcomes[i].kind = "raise" /\ outcomes[i].exc.cls = Stale
                    /\ i < BasePageMaxAttempts)
                => ~(Terminated /\ Len(outcomes) = i)
        /\ (rpc = "raised" /\ result.exc.cls = Stale)
            => /\ Len(outcomes) = BasePageMaxAttempts
               /\ \A i \in 1..BasePageMaxAttempts :
                    outcomes[i].kind = "raise" /\ outcomes[i].exc.cls = Stale
               /\ result = outcomes[BasePageMaxAttempts]
        /\ ( /\ Terminated
             /\ Len(outcomes) = BasePageMaxAttempts
             /\ \A i \in 1..BasePageMaxAttempts :
                    outcomes[i].kind = "raise" /\ outcomes[i].exc.cls = Stale )
            => rpc = "raised" /\ result = outcomes[BasePageMaxAttempts]

C5_Witness ==
    /\ fn = "click" /\ rpc = "raised" /\ result.exc.cls = Stale
    /\ Len(outcomes) = BasePageMaxAttempts

\* C6: sleeps happen only between invocations: calls and sleeps alternate,
\* starting with a call; each sleep follows an invocation that raised a
\* retryable exception and lasts `delay`; when the call has ended the last of
\* them is a call, so n invocations come with exactly n-1 sleeps, at most
\* max_attempts-1.
C6_SleepOnlyBetweenAttempts ==
    /\ \A j \in 1..Len(CallsAndSleeps) :
          CallsAndSleeps[j] = (IF j % 2 = 1 THEN "call" ELSE "sleep")
    /\ \A j \in 1..Len(CallsAndSleeps) :
          CallsAndSleeps[j] = "sleep" => RetryableFailure(outcomes[j \div 2])
    /\ slept = delay * NumSleeps
    /\ Terminated =>
          /\ Len(outcomes) >= 1 => NumSleeps = Len(outcomes) - 1
          /\ Len(outcomes) = 0 => NumSleeps = 0
          /\ max_attempts >= 1 => NumSleeps <= max_attempts - 1

C6_Witness ==
    /\ Terminated /\ Len(outcomes) = 3 /\ NumSleeps = 2
    /\ delay = BasePageDelayMs /\ slept = 2 * BasePageDelayMs
    /\ rpc = "raised"

NotFound(o) == o.kind = "raise" /\ o.exc.cls = "ElementNotFoundError"

\* C24: a wait of BasePage.find_element that times out ends the call with
\* ElementNotFoundError and is not repeated, so a locator that does not
\* resolve costs exactly one wait; only a wait that failed with a stale
\* reference is followed by another wait, and there are 3 waits at most.
C24_TimeoutIsNotRetried ==
    fn = "find_element" =>
        /\ Len(outcomes) <= 3
        /\ \A i \in 1..Len(outcomes) :
              /\ ~(outcomes[i].kind = "raise"
                      /\ outcomes[i].exc.cls = "TimeoutException")
              /\ NotFound(outcomes[i])
                    => /\ i = Len(outcomes)
                       /\ rpc = "raised"
                       /\ result = outcomes[i]
              /\ i < Len(outcomes)
                    => outcomes[i].kind = "raise" /\ outcomes[i].exc.cls = Stale
        /\ (Len(outcomes) >= 1 /\ NotFound(outcomes[1])) => events = <<"call">>

C24_Witness ==
    /\ fn = "find_element"
    /\ rpc = "raised"
    /\ Len(outcomes) = 1
    /\ result.exc.cls = "ElementNotFoundError"
    /\ result.exc.msg = "Element not found within 15s: loc"
    /\ slept = 0

\* C27: with max_attempts >= 1 a call that has ended made at least one
\* invocation, and what it raises is an exception object an invocation
\* raised; with max_attempts <= 0 no invocation is ever made, and the call
\* ends by raising the TypeError of `raise None`, never by returning.
C27_NonPositiveAttemptsRaiseTypeError ==
    /\ max_attempts >= 1 =>
          /\ Terminated => Len(outcomes) >= 1
          /\ rpc = "raised" =>
                \E i \in 1..Len(outcomes) :
                    outcomes[i].kind = "raise" /\ result.exc = outcomes[i].exc
    /\ max_attempts <= 0 =>
          /\ Len(outcomes) = 0
          /\ events = <<>>
          /\ rpc # "returned"
          /\ rpc = "raised" =>
                result.exc.cls = "TypeError" /\ result.exc.id = 0

C27_Witness ==
    /\ max_attempts = 0
    /\ rpc = "raised"
    /\ result.exc.cls = "TypeError"
    /\ outcomes = <<>>

----------------------------------------------------------------------------
(* Properties of ApiClient._request *)

ApiDone == apc = "done"
ApiReturned == ApiDone /\ api_result.kind = "return"
LastAnswer == answers[Len(answers)]

\* an Optional[str] that is a string, and not the empty one
NonEmptyStr(x) == Len(x) = 1 /\ Len(x[1]) > 0

\* the call ended on a dispatch that ran into the connect or the read timeout
TimedOut == ApiDone /\ LastAnswer.kind \in {"connect_timeout", "read_timeout"}

\* C7: a request that ends on a timeout (connect or read, on the first dispatch
\* or after the transport's retries) does not raise: _request returns an
\* ApiResponse with status_code 0, is_success false and a non-empty
\* error_message.
C7_TimeoutReturnsStatusZero ==
    TimedOut
    => /\ api_result.kind = "return"
       /\ api_result.resp.status_code = 0
       /\ api_result.resp.is_success = FALSE
       /\ NonEmptyStr(api_result.resp.error_message)

C7_Witness ==
    /\ TimedOut /\ method = "POST" /\ LastAnswer.kind = "read_timeout"
    /\ api_result.kind = "return"
    /\ api_result.resp.error_message = Some("Timeout after 15s")

\* C8: every ApiResponse _request returns with status_code 0 carries an
\* error_message that is a non-empty string, whatever the failure was and
\* whatever its message, the empty one included.
C8_StatusZeroHasMessage ==
    (ApiReturned /\ api_result.resp.status_code = 0)
    => NonEmptyStr(api_result.resp.error_message)

\* C9 as stated, the conventional ok range being the 2xx statuses: is_success
\* is true iff status_code is in 200..299.
C9_SuccessIffStatus2xx ==
    ApiReturned
    => (api_result.resp.is_success
            <=> (200 <= api_result.resp.status_code
                    /\ api_result.resp.status_code <= 299))

\* C9, amended: is_success is true iff a response was received (status_code is
\* not 0) and its status is no 4xx or 5xx status; so it is false for status 0
\* and for every 4xx and 5xx, and true for a received 304 as for a 200.
C9_SuccessIffReceivedAndNoError ==
    ApiReturned
    => /\ api_result.resp.is_success
            <=> /\ api_result.resp.status_code # 0
                /\ ~(400 <= api_result.resp.status_code
                        /\ api_result.resp.status_code <= 599)
       /\ api_result.resp.status_code = 0 => ~api_result.resp.is_success
       /\ (LastAnswer.kind = "response" /\ api_result.resp.status_code # 0)
            => api_result.resp.status_code = LastAnswer.status

C9_Witness ==
    /\ ApiReturned
    /\ api_result.resp.status_code = 304
    /\ api_result.resp.is_success

\* C10: a dispatch answered 500, 502, 503 or 504 is sent again while fewer than
\* API_MAX_RETRIES resends were made, a call makes at most 1 + API_MAX_RETRIES
\* dispatches, and when the last dispatch was answered by the server the
\* caller gets an ApiResponse with that answer's status, also when every
\* dispatch was answered with a 5xx status.
C10_TransparentStatusRetry ==
    /\ Len(answers) <= 1 + api_max_retries
    /\ \A i \in 1..Len(answers) :
          ( /\ answers[i].kind = "response"
            /\ answers[i].status \in {500, 502, 503, 504}
            /\ i <= api_max_retries )
          => (Len(answers) > i \/ ~ApiDone)
    /\ (ApiDone /\ LastAnswer.kind = "response")
          => /\ api_result.kind = "return"
             /\ api_result.resp.status_code = LastAnswer.status

\* the content types that contain "json", listed by hand
JsonTypes == {"application/json; charset=utf-8", "application/problem+json"}

\* C11: on a received response (an answer the transport does not retry and
\* hands to _request) the body is the parsed document when the
\* content-type header contains "json" and the text is a JSON document, and
\* None in every other case (another content type; a JSON content type with
\* a text that does not parse); _request returns and does not raise, and
\* status_code, headers and is_success are those of the response.
C11_JsonBodyOnlyForJsonType ==
    (ApiDone /\ LastAnswer.kind = "response"
        /\ ~WantsRetry(method, total, LastAnswer))
    => /\ api_result.kind = "return"
       /\ api_result.resp.body =
            (IF LastAnswer.content_type \in JsonTypes /\ LastAnswer.json_text
             THEN Some("parsed") ELSE NoneStr)
       /\ api_result.resp.status_code = LastAnswer.status
       /\ api_result.resp.headers = LastAnswer.content_type
       /\ api_result.resp.is_success
            = (LastAnswer.status \notin {404, 429, 500, 503})
       /\ api_result.resp.error_message = NoneStr

C11_Witness ==
    /\ ApiReturned /\ LastAnswer.kind = "response"
    /\ LastAnswer.content_type = "application/problem+json"
    /\ ~LastAnswer.json_text
    /\ LastAnswer.status = 404
    /\ api_result.resp.body = NoneStr
    /\ api_result.resp.status_code = 404

----------------------------------------------------------------------------
(* Properties of the polling conditions *)

WaitEnded == wpc \in {"resolved", "timed_out", "raised"}
\* the readiness query returned "complete" at evaluation i
SawComplete(i) == polls[i].browser.ready = "complete"

\* C12: a wait on page_has_loaded evaluates the readiness query before it
\* sleeps or gives up; an evaluation at which the query returns "complete"
\* (the first one included) resolves the wait there and then; the wait never
\* resolves on another value ("loading", "interactive"); and when it ends
\* without the query ever having returned "complete", it ends with the
\* timeout exception of the wait.
C12_ResolvesAtFirstComplete ==
    wcond.name = "page_has_loaded"
    => /\ Len(polls) = 0 => wpc = "poll"
       /\ \A i \in 1..Len(polls) :
            SawComplete(i)
            => /\ i = Len(polls)
               /\ wpc = "resolved"
               /\ wait_result.kind = "bool" /\ wait_result.truth
       /\ wpc = "resolved" => SawComplete(Len(polls))
       /\ (WaitEnded /\ \A i \in 1..Len(polls) : ~SawComplete(i))
            => /\ wpc = "timed_out"
               /\ wait_result.kind = "raise"
               /\ wait_result.exc = "TimeoutException"

C12_Witness ==
    /\ wcond.name = "page_has_loaded"
    /\ wpc = "resolved"
    /\ Len(polls) = 3
    /\ polls[1].browser.ready = "interactive"
    /\ polls[2].browser.ready = "interactive"
    /\ polls[3].browser.ready = "complete"

\* C13: a wait on element_count_is_at_least(locator, n), n >= 0: an evaluation
\* that finds m matching elements resolves the wait, returning the m
\* elements, exactly when m >= n, the case n = 0 and m = 0 included.
C13_CountAtLeastResolvesIffEnough ==
    wcond.name = "element_count_is_at_least"
    => \A i \in 1..Len(polls) :
          (Len(polls[i].browser.dom) >= wcond.count)
          <=> /\ i = Len(polls)
              /\ wpc = "resolved"
              /\ wait_result.kind = "list"
              /\ wait_result.items = polls[i].browser.dom

----------------------------------------------------------------------------
(* Properties of parse_price and validate_pricing *)

RECURSIVE IsPriceLabel(_)
\* a label made only of digits, thousands separators, blanks and currency
\* symbols, the textual symbol "Rs." among them
IsPriceLabel(t) ==
    \/ Len(t) = 0
    \/ /\ Char(t, 1) \in DigitChars \cup {",", " ", "₹"}
       /\ IsPriceLabel(SubSeq(t, 2, Len(t)))
    \/ /\ Len(t) >= 3
       /\ SubSeq(t, 1, 3) = "Rs."
       /\ IsPriceLabel(SubSeq(t, 4, Len(t)))

RECURSIVE LabelNumber(_)
\* the number the digits of a label write, everything else removed
LabelNumber(t) ==
    IF Len(t) = 0 THEN 0
    ELSE IF Char(t, Len(t)) \in DigitChars
         THEN LabelNumber(SubSeq(t, 1, Len(t) - 1)) * 10
                + DigitVal(Char(t, Len(t)))
         ELSE LabelNumber(SubSeq(t, 1, Len(t) - 1))

\* C15: for a label made only of digits, thousands separators, blanks and
\* currency symbols ("Rs." included) parse_price returns the number written
\* by the digits: 1299.0 for "Rs. 1,299" and for "₹1299", 0.0 for "".
C15_PriceOfLabelIsItsDigits ==
    (ppc = "done" /\ IsPriceLabel(label))
    => /\ price_result.kind = "return"
       /\ price_result.val = [num |-> LabelNumber(label), dec |-> 0]

\* what is left of the label is no number: several points, or points and
\* no digit
MalformedRemainder(t) ==
    \/ Cardinality({i \in 1..Len(t) : Char(t, i) = "."}) > 1
    \/ /\ \E i \in 1..Len(t) : Char(t, i) = "."
       /\ \A i \in 1..Len(t) : Char(t, i) \notin DigitChars

\* C16: parse_price does not raise on a label whose stripped remainder is no
\* valid number ("1.2.3", "Rs."): it returns 0.0.
C16_MalformedPriceIsZero ==
    (ppc = "done" /\ MalformedRemainder(label))
    => /\ price_result.kind = "return"
       /\ price_result.val = [num |-> 0, dec |-> 0]

\* a price of the cart in hundredths of the currency unit
Hundredths(a) == a.num * Pow10(2 - a.dec)

RECURSIVE SumHundredths(_)
SumHundredths(ps) ==
    IF Len(ps) = 0 THEN 0
    ELSE Hundredths(ps[1]) + SumHundredths(SubSeq(ps, 2, Len(ps)))

AbsInt(x) == IF x < 0 THEN 0 - x ELSE x

Validated == cpc = "done" /\ breakdown.kind = "return"

\* C17: in the PricingBreakdown validate_pricing returns, calculated_sum is
\* the sum of item_prices, difference is |displayed_total - calculated_sum|,
\* and is_consistent is true iff difference < 1.0: it is false at a
\* difference of exactly 1.0 and above.
C17_ConsistentIffDifferenceBelowOne ==
    Validated
    => /\ Hundredths(breakdown.calculated_sum)
            = SumHundredths(breakdown.item_prices)
       /\ Hundredths(breakdown.difference)
            = AbsInt(Hundredths(breakdown.displayed_total)
                        - Hundredths(breakdown.calculated_sum))
       /\ breakdown.is_consistent <=> Hundredths(breakdown.difference) < 100
       /\ Hundredths(breakdown.difference) >= 100 => ~breakdown.is_consistent

C17_Witness ==
    /\ Validated
    /\ Len(breakdown.item_prices) = 2
    /\ Hundredths(breakdown.calculated_sum) = 19950
    /\ Hundredths(breakdown.displayed_total) = 20050
    /\ Hundredths(breakdown.difference) = 100
    /\ ~breakdown.is_consistent

\* what the labels of the carts read, in hundredths of a rupee
LabelHundredths(t) ==
    CASE t = "₹100" -> 10000
      [] t = "₹99.50" -> 9950
      [] t = "₹0.50" -> 50
      [] t = "" -> 0

RECURSIVE PositiveHundredths(_)
\* the positive readings of the labels, in the order of the document
PositiveHundredths(ts) ==
    IF Len(ts) = 0 THEN <<>>
    ELSE (IF LabelHundredths(ts[1]) > 0 THEN <<LabelHundredths(ts[1])>> ELSE <<>>)
            \o PositiveHundredths(SubSeq(ts, 2, Len(ts)))

\* C23: the item prices validate_pricing works on are, in document order,
\* exactly the parsed prices of the item-price elements that parse to more
\* than 0; each of them is positive, and an element that parses to 0.0 adds
\* nothing to the sum.
C23_ItemPricesArePositiveReadings ==
    Validated
    => /\ Len(breakdown.item_prices) = Len(PositiveHundredths(item_labels))
       /\ \A k \in 1..Len(breakdown.item_prices) :
             /\ Hundredths(breakdown.item_prices[k])
                    = PositiveHundredths(item_labels)[k]
             /\ Hundredths(breakdown.item_prices[k]) > 0
       /\ Hundredths(breakdown.calculated_sum)
            = SumHundredths(breakdown.item_prices)

C23_Witness ==
    /\ Validated
    /\ item_labels = <<"", "₹99.50">>
    /\ Len(breakdown.item_prices) = 1
    /\ Hundredths(breakdown.calculated_sum) = 9950

----------------------------------------------------------------------------
(* Properties of the cross-layer price test *)

\* the inventory API answered 200 with inventory data
AnsweredWithInventory ==
    /\ xpc = "done"
    /\ api_response.status_code = 200
    /\ api_response.body # NoneStr
    /\ Len(api_response.body[1].inventory) > 0

FirstSku == api_response.body[1].inventory[1]
NonZero(v) == v # Absent /\ v.num # 0

\* the first non-zero value among price, selling_price and sp
FirstNonZeroAlias ==
    IF NonZero(FirstSku.price) THEN FirstSku.price
    ELSE IF NonZero(FirstSku.selling_price) THEN FirstSku.selling_price
    ELSE FirstSku.sp

\* |ui_price - api price| in hundredths
CrossDiff == AbsInt(Hundredths(ui_price) - Hundredths(FirstNonZeroAlias))

\* C18: when the inventory API answers 200 with inventory data that carries
\* a non-zero price, the test ends on its comparison: it passes when
\* |ui_price - api_price| <= 1.0 and fails on the price assertion otherwise.
C18_PassesIffWithinTolerance ==
    (AnsweredWithInventory /\ NonZero(FirstNonZeroAlias))
    => /\ test_outcome.outcome = "passed" <=> CrossDiff <= 100
       /\ test_outcome.outcome = "failed"
            => test_outcome.why = "AssertionError: Price mismatch"
       /\ test_outcome.outcome # "skipped"

\* C19: the API price the test compares is the first non-zero value among
\* price, selling_price and sp of the first SKU entry, and when every alias
\* is absent or zero the test is skipped: it neither passes nor fails.
C19_AliasOrderAndSkip ==
    AnsweredWithInventory
    => IF NonZero(FirstNonZeroAlias)
       THEN test_outcome.api_price = FirstNonZeroAlias
       ELSE test_outcome.outcome = "skipped"

\* C26: however the try block of the test is left (skip, failed assertion,
\* unexpected exception, pass), the ApiClient made in step 3 is closed
\* exactly once, after the block and never before; and the request of the
\* test is issued only while the client has not been closed.
C26_ClientClosedOnceOnEveryOutcome ==
    /\ [](closes = (IF xpc = "done" THEN 1 ELSE 0))
    /\ [](xpc = "done" => test_outcome.outcome \in {"passed", "failed", "skipped"})
    /\ [][api_response' # api_response => closes = 0 /\ closes' = 0]_vars

C26_Witness ==
    /\ xpc = "done"
    /\ closes = 1
    /\ api_response.status_code = 200
    /\ test_outcome.outcome = "failed"
    /\ test_outcome.why = "AttributeError"

----------------------------------------------------------------------------
(* Properties of the fixtures *)

\* C20: when a test that uses the driver fixture failed in its call phase
\* and SCREENSHOT_ON_FAILURE is true, a screenshot of its browser session is
\* captured, and it is captured while the driver is alive (before the driver
\* fixture quits it); no capture is attempted for a test that passed or
\* that has no driver.
C20_ScreenshotBeforeQuit ==
    /\ \A i \in 1..Len(finished) :
          (finished[i].rep_call = "failed" /\ finished[i].uses_driver
                /\ screenshot_on)
          => \E j \in 1..Len(shots) :
                /\ shots[j].test = finished[i].test
                /\ shots[j].alive
                /\ shots[j].path # ""
    /\ \A j \in 1..Len(shots) : shots[j].alive
    /\ \A j \in 1..Len(shots), i \in 1..Len(finished) :
          shots[j].test = finished[i].test
          => finished[i].rep_call = "failed" /\ finished[i].uses_driver

\* the drivers created for test t
DriversOf(t) == {d \in 1..Len(drivers) : drivers[d].test = t}

\* C21: a test that obtained a WebDriver has that driver alive until its
\* call phase is over and quit exactly once by the end of its teardown,
\* whether the test passed, failed (assertion or error) or skipped itself;
\* every driver serves one test only and no driver is quit twice.
C21_DriverQuitExactlyOnce ==
    /\ \A i \in 1..Len(finished) :
          IF finished[i].uses_driver
          THEN /\ Cardinality(DriversOf(finished[i].test)) = 1
               /\ \A d \in DriversOf(finished[i].test) :
                     drivers[d].state = "quit" /\ drivers[d].quits = 1
          ELSE DriversOf(finished[i].test) = {}
    /\ \A d \in 1..Len(drivers) :
          /\ drivers[d].quits <= 1
          /\ (drivers[d].test = test_no /\ fpc = "setup")
                => drivers[d].state = "alive"
          /\ \A e \in 1..Len(drivers) :
                drivers[d].test = drivers[e].test => d = e

C21_Witness ==
    /\ Len(finished) = 2
    /\ finished[1].uses_driver /\ finished[1].rep_call = "failed"
    /\ finished[2].uses_driver /\ finished[2].rep_call = "skipped"
    /\ Len(drivers) = 2
    /\ drivers[1].quits = 1 /\ drivers[2].quits = 1

----------------------------------------------------------------------------
(* Properties of the tolerance checks *)

\* |shown_price - other_price| in hundredths
PriceGap == AbsInt(Hundredths(shown_price) - Hundredths(other_price))

\* C28: at a difference of exactly 1.0 the cross-layer check accepts while
\* the sum-consistency check and the PDP-vs-cart check reject; at every other
\* difference the three checks give the same answer.
C28_ChecksDifferOnlyAtOne ==
    tpc = "done" =>
        /\ PriceGap = 100 =>
              /\ verdicts.cross_layer
              /\ ~verdicts.is_consistent
              /\ ~verdicts.price_found
        /\ PriceGap < 100 =>
              verdicts.cross_layer /\ verdicts.is_consistent /\ verdicts.price_found
        /\ PriceGap > 100 =>
              /\ ~verdicts.cross_layer
              /\ ~verdicts.is_consistent
              /\ ~verdicts.price_found

C28_Witness ==
    /\ tpc = "done"
    /\ PriceGap = 100
    /\ verdicts.cross_layer
    /\ ~verdicts.price_found

----------------------------------------------------------------------------
(* Properties of HomePage.search_product *)

\* C29: for a non-blank query the url-change wait is given the url the query
\* was submitted on, and once the browser has left that url the call returns
\* without running into the timeout; a timeout is never raised.
C29_NavigationIsDetected ==
    /\ spc \in {"poll", "checked"} => original_url = submit_url
    /\ (spc = "done" /\ search_outcome = "timeout swallowed")
            => current_url = submit_url
    /\ spc = "done" => search_outcome \in {"returned", "timeout swallowed"}

----------------------------------------------------------------------------
(* Properties of SearchResultsPage.get_product_cards *)

\* C30: when the wait of get_product_cards returned a collection, the list
\* get_product_cards returns is that collection and is not empty, however
\* the page re-renders meanwhile; and when has_results() answered true,
\* click_first_product finds a card to click.
C30_ReturnsWhatTheWaitObserved ==
    /\ (returned # <<>> /\ observed # <<>>)
            => returned = observed /\ returned[1].n > 0
    /\ (kpc = "done" /\ has_results = <<TRUE>>) => clicked = "clicked"

----------------------------------------------------------------------------
(* Properties of BasePage.dismiss_popups *)

AllTimedOut ==
    \A k \in 2..Len(tried) : tried[k].outcome = "TimeoutException"

====
